---- MODULE Spec2Model ----
(***************************************************************************)
(* Contrapunctus: species-counterpoint validation.                         *)
(*                                                                         *)
(* The module models Pitch, Interval and Scale (js/core) as operators and  *)
(* the validate() entry points of FirstSpeciesValidator,                   *)
(* SecondSpeciesValidator and ThirdSpeciesValidator as actions over an     *)
(* exercise {cantusFirmus, counterpoint, key, mode, cpPosition}.           *)
(*                                                                         *)
(* A note string such as "F#4" is represented by the three groups its      *)
(* regular expression /^([A-Ga-g])([#b]?)(\d)$/ captures:                  *)
(* [name |-> "F", accidental |-> "#", octave |-> 4].  A rest is the        *)
(* JavaScript value null; reading an array past its end gives undefined.   *)
(* Issue messages are not modelled; an issue carries rule, position and    *)
(* severity.                                                               *)
(***************************************************************************)
EXTENDS Integers, Sequences, FiniteSets, TLC

VARIABLES cantusFirmus, counterpoint, key, mode, cpPosition,
          validator, outcome, results, calls, op, arg, ret

vars == <<cantusFirmus, counterpoint, key, mode, cpPosition,
          validator, outcome, results, calls, op, arg, ret>>

exercise == <<cantusFirmus, counterpoint, key, mode, cpPosition>>

-----------------------------------------------------------------------------
(* JavaScript values and helpers *)

null == [isNull |-> TRUE]

undefined == [isUndefined |-> TRUE]

Note(n, a, o) == [name |-> n, accidental |-> a, octave |-> o]

IsNote(v) == v # null /\ v # undefined

\* array[i] with a 0-based index
At(arr, i) == IF i >= 0 /\ i < Len(arr) THEN arr[i + 1] ELSE undefined

\* Array.prototype.indexOf, 0-based, -1 when absent
indexOf(arr, v) ==
    IF \E i \in 1..Len(arr) : arr[i] = v
    THEN (CHOOSE i \in 1..Len(arr) :
              arr[i] = v /\ \A j \in 1..(i - 1) : arr[j] # v) - 1
    ELSE -1

sign(x) == IF x > 0 THEN 1 ELSE IF x < 0 THEN -1 ELSE 0

abs(x) == IF x < 0 THEN -x ELSE x

min(a, b) == IF a < b THEN a ELSE b

max(a, b) == IF a > b THEN a ELSE b

-----------------------------------------------------------------------------
(* Pitch *)

NOTE_NAMES == <<"C", "C#", "D", "D#", "E", "F", "F#", "G", "G#", "A", "A#", "B">>

ENHARMONICS ==
    [n \in {"Db", "Eb", "Fb", "Gb", "Ab", "Bb", "Cb", "E#", "B#"} |->
        CASE n = "Db" -> "C#"
          [] n = "Eb" -> "D#"
          [] n = "Fb" -> "E"
          [] n = "Gb" -> "F#"
          [] n = "Ab" -> "G#"
          [] n = "Bb" -> "A#"
          [] n = "Cb" -> "B"
          [] n = "E#" -> "F"
          [] n = "B#" -> "C"]

DIATONIC_NAMES == <<"C", "D", "E", "F", "G", "A", "B">>

Pitch_parse(noteStr) ==
    LET name == noteStr.name
        accidental == noteStr.accidental
        octave == noteStr.octave
        spelled == name \o accidental
        normalizedName == IF spelled \in DOMAIN ENHARMONICS
                          THEN ENHARMONICS[spelled] ELSE spelled
        found == indexOf(NOTE_NAMES, normalizedName)
        semitone == IF found = -1
                    THEN LET baseIndex == indexOf(NOTE_NAMES, name)
                         IN  ((IF accidental = "#" THEN baseIndex + 1
                                                   ELSE baseIndex - 1) + 12) % 12
                    ELSE found
    IN  [name |-> name, accidental |-> accidental, octave |-> octave,
         midi |-> (octave + 1) * 12 + semitone]

Pitch_toMidi(noteStr) == Pitch_parse(noteStr).midi

LETTERS == <<"C", "D", "E", "F", "G", "A", "B", "c", "d", "e", "f", "g", "a", "b">>

DIGITS == <<"0", "1", "2", "3", "4", "5", "6", "7", "8", "9">>

\* String.prototype.toUpperCase on one letter of a note name
toUpperCase(c) ==
    CASE c = "c" -> "C" [] c = "d" -> "D" [] c = "e" -> "E" [] c = "f" -> "F"
      [] c = "g" -> "G" [] c = "a" -> "A" [] c = "b" -> "B" [] OTHER -> c

\* parseInt of one decimal digit
parseInt(d) == indexOf(DIGITS, d)

\* noteStr.match(/^([A-Ga-g])([#b]?)(\d)$/) followed by toUpperCase and
\* parseInt: the three groups, or null when the text does not match
Pitch_match(text) ==
    LET n == Len(text)
        c(i) == SubSeq(text, i, i)
    IN  IF n = 2 /\ indexOf(LETTERS, c(1)) # -1 /\ indexOf(DIGITS, c(2)) # -1
        THEN Note(toUpperCase(c(1)), "", parseInt(c(2)))
        ELSE IF /\ n = 3 /\ indexOf(LETTERS, c(1)) # -1 /\ c(2) \in {"#", "b"}
                /\ indexOf(DIGITS, c(3)) # -1
        THEN Note(toUpperCase(c(1)), c(2), parseInt(c(3)))
        ELSE null

\* the outcome of a call: it raised an Error, or it returned a value
threw == [threw |-> TRUE]

returned(value) == [value |-> value]

\* Pitch.parse on the text of a note: it raises on a text the pattern rejects
Pitch_parseText(text) ==
    IF Pitch_match(text) = null THEN threw ELSE Pitch_parse(Pitch_match(text))

\* Pitch.toMidi on the text of a note
Pitch_toMidiText(text) ==
    IF Pitch_parseText(text) = threw THEN threw
    ELSE returned(Pitch_parseText(text).midi)

\* Pitch.fromMidi: the sharp name followed by the octave number in decimal
Pitch_fromMidi(midi) ==
    LET octave == (midi \div 12) - 1
        noteIndex == midi % 12
    IN  NOTE_NAMES[noteIndex + 1] \o ToString(octave)

Pitch_diatonicIndex(noteName) == indexOf(DIATONIC_NAMES, noteName)

Pitch_genericInterval(note1, note2) ==
    LET p1 == Pitch_parse(note1)
        p2 == Pitch_parse(note2)
        d1 == Pitch_diatonicIndex(p1.name) + p1.octave * 7
        d2 == Pitch_diatonicIndex(p2.name) + p2.octave * 7
    IN  abs(d2 - d1) + 1

-----------------------------------------------------------------------------
(* Interval *)

Interval_calculateQuality(generic, semitones) ==
    LET isPerfectType == generic \in {1, 4, 5, 8}
        expected == [g \in 1..8 |->
                        CASE g = 1 -> 0 [] g = 2 -> 2 [] g = 3 -> 4 [] g = 4 -> 5
                          [] g = 5 -> 7 [] g = 6 -> 9 [] g = 7 -> 11 [] g = 8 -> 12]
        diff == semitones - expected[generic]
    IN  IF isPerfectType
        THEN IF diff = 0 THEN "P"
             ELSE IF diff = 1 THEN "A"
             ELSE IF diff = -1 THEN "d"
             ELSE IF diff > 1 THEN "A"
             ELSE "d"
        ELSE IF diff = 0 THEN "M"
             ELSE IF diff = -1 THEN "m"
             ELSE IF diff = 1 THEN "A"
             ELSE IF diff < -1 THEN "d"
             ELSE "A"

Interval_between(note1, note2) ==
    LET midi1 == Pitch_toMidi(note1)
        midi2 == Pitch_toMidi(note2)
        signed == midi2 - midi1
        direction == IF signed >= 0 THEN 1 ELSE -1
        semitones == abs(signed)
        generic == Pitch_genericInterval(note1, note2)
        simpleGeneric == ((generic - 1) % 7) + 1
        simpleSemitones == semitones % 12
        quality == Interval_calculateQuality(simpleGeneric, simpleSemitones)
    IN  [semitones |-> semitones * direction,
         generic |-> generic,
         quality |-> quality,
         name |-> quality \o ToString(generic),
         simple |-> [generic |-> simpleGeneric,
                     semitones |-> simpleSemitones,
                     name |-> quality \o ToString(simpleGeneric)],
         compound |-> generic > 8,
         direction |-> direction]

Interval_isConsonant(interval) ==
    interval.simple.name \in {"P1", "P5", "P8", "m3", "M3", "m6", "M6"}

Interval_isPerfectConsonance(interval) ==
    interval.simple.name \in {"P1", "P5", "P8"}

Interval_isImperfectConsonance(interval) ==
    interval.simple.name \in {"m3", "M3", "m6", "M6"}

\* dissonance read as whatever is no perfect consonance
Interval_isDissonant_imperfectToo(interval) ==
    ~Interval_isPerfectConsonance(interval)

Interval_isDissonant(interval) == ~Interval_isConsonant(interval)

Interval_isTritone(interval) == interval.simple.semitones = 6

\* Interval.invert: interval.simple carries generic, semitones and name but
\* no quality, so simple.quality is undefined, the lookup in qualityInversion
\* fails and `|| simple.quality` leaves undefined; undefined + number is NaN.
\* Both are written as the texts JavaScript prints for them.
Interval_invert(interval) ==
    LET simple == interval.simple
        invertedGeneric == 9 - simple.generic
        invertedSemitones == 12 - simple.semitones
        qualityInversion == [q \in {"P", "M", "m", "A", "d"} |->
                                CASE q = "P" -> "P" [] q = "M" -> "m" [] q = "m" -> "M"
                                  [] q = "A" -> "d" [] q = "d" -> "A"]
        quality == IF "quality" \in DOMAIN simple THEN simple.quality ELSE "undefined"
        invertedQuality == IF quality \in DOMAIN qualityInversion
                           THEN qualityInversion[quality] ELSE quality
    IN  [generic |-> invertedGeneric,
         semitones |-> invertedSemitones,
         quality |-> invertedQuality,
         name |-> IF invertedQuality = "undefined" THEN "NaN"
                  ELSE invertedQuality \o ToString(invertedGeneric)]

-----------------------------------------------------------------------------
(* Scale *)

PATTERNS ==
    [m \in {"major", "naturalMinor", "harmonicMinor", "melodicMinor", "dorian",
            "phrygian", "lydian", "mixolydian", "aeolian", "locrian"} |->
        CASE m = "major"         -> <<0, 2, 4, 5, 7, 9, 11>>
          [] m = "naturalMinor"  -> <<0, 2, 3, 5, 7, 8, 10>>
          [] m = "harmonicMinor" -> <<0, 2, 3, 5, 7, 8, 11>>
          [] m = "melodicMinor"  -> <<0, 2, 3, 5, 7, 9, 11>>
          [] m = "dorian"        -> <<0, 2, 3, 5, 7, 9, 10>>
          [] m = "phrygian"      -> <<0, 1, 3, 5, 7, 8, 10>>
          [] m = "lydian"        -> <<0, 2, 4, 6, 7, 9, 11>>
          [] m = "mixolydian"    -> <<0, 2, 4, 5, 7, 9, 10>>
          [] m = "aeolian"       -> <<0, 2, 3, 5, 7, 8, 10>>
          [] m = "locrian"       -> <<0, 1, 3, 5, 6, 8, 10>>]

Scale_getPattern(m) == IF m \in DOMAIN PATTERNS THEN PATTERNS[m] ELSE PATTERNS["major"]

\* getDegree returns null for a note outside the scale; every caller only
\* compares the degree with 1..7 or tests its truthiness, so null is 0 here.
NoDegree == 0

\* tonic is the key's letter and accidental; the code appends octave '0'
Scale_getDegree(note, tonic, m) ==
    LET noteMidi == Pitch_toMidi(note)
        tonicMidi == Pitch_toMidi(Note(tonic.name, tonic.accidental, 0))
        pattern == Scale_getPattern(m)
        relativePosition == (((noteMidi - tonicMidi) % 12) + 12) % 12
        degreeIndex == indexOf(pattern, relativePosition)
    IN  IF degreeIndex # -1 THEN degreeIndex + 1 ELSE NoDegree

-----------------------------------------------------------------------------
(* ValidationResult and issue bookkeeping shared by the three validators *)

ERROR == "error"

WARNING == "warning"

SUGGESTION == "suggestion"

NewResults ==
    [valid |-> TRUE, score |-> 100, errors |-> <<>>, warnings |-> <<>>,
     suggestions |-> <<>>, noteResults |-> <<>>]

Issue(rule, position, severity) ==
    [rule |-> rule, position |-> position, severity |-> severity]

\* for (let i = 0; i < n; i++) acc = Body(i, acc); the test on DOMAIN makes
\* each iteration's value be computed before the next iteration starts
RECURSIVE forLoop(_, _, _, _)
forLoop(Body(_, _), i, n, acc) ==
    IF i >= n THEN acc
    ELSE LET next == Body(i, acc)
         IN  IF DOMAIN next # {} THEN forLoop(Body, i + 1, n, next) ELSE next

\* results.noteResults[i] = { valid: true, issues: [] } for i < n
initNoteResults(r, n) ==
    [r EXCEPT !.noteResults = [i \in 1..n |-> [valid |-> TRUE, issues |-> <<>>]]]

\* results.noteResults[position].issues.push(issue)
noteIssue(r, issue) ==
    [r EXCEPT !.noteResults[issue.position + 1].issues = Append(@, issue)]

\* results.noteResults[position].valid = false
noteInvalid(r, position) ==
    [r EXCEPT !.noteResults[position + 1].valid = FALSE]

\* results.errors.push(issue); noteResults[position].valid = false; ...issues.push(issue)
pushError(r, issue) ==
    noteIssue(noteInvalid([r EXCEPT !.errors = Append(@, issue)], issue.position), issue)

\* results.warnings.push(issue); noteResults[position].issues.push(issue)
pushWarning(r, issue) ==
    noteIssue([r EXCEPT !.warnings = Append(@, issue)], issue)

\* results.suggestions.push(issue); noteResults[position].issues.push(issue)
pushSuggestion(r, issue) ==
    noteIssue([r EXCEPT !.suggestions = Append(@, issue)], issue)

\* results.warnings.push(issue) only (no per-note entry)
pushGlobalWarning(r, issue) == [r EXCEPT !.warnings = Append(@, issue)]

\* results.suggestions.push(issue) only (no per-note entry)
pushGlobalSuggestion(r, issue) == [r EXCEPT !.suggestions = Append(@, issue)]

\* Interval.between(cpPosition === 'upper' ? cf : cp, cpPosition === 'upper' ? cp : cf)
harmonicInterval(cf, cp, pos) ==
    Interval_between(IF pos = "upper" THEN cf ELSE cp,
                     IF pos = "upper" THEN cp ELSE cf)

getMotionType(cf1, cf2, cp1, cp2) ==
    LET cfDirection == sign(Pitch_toMidi(cf2) - Pitch_toMidi(cf1))
        cpDirection == sign(Pitch_toMidi(cp2) - Pitch_toMidi(cp1))
    IN  IF cfDirection = 0 /\ cpDirection = 0 THEN "stationary"
        ELSE IF cfDirection = 0 \/ cpDirection = 0 THEN "oblique"
        ELSE IF cfDirection = cpDirection THEN "similar"
        ELSE "contrary"

\* membership in the triadPatterns table: the 42 listed orderings are all the
\* permutations of the seven diatonic triads {d, d+2, d+4} over degrees 1..7
triadPatterns(degree1, degree2, degree3) ==
    \E d \in 1..7 :
        {degree1, degree2, degree3} = {d, ((d + 1) % 7) + 1, ((d + 3) % 7) + 1}

-----------------------------------------------------------------------------
(* FirstSpeciesValidator (1:1) *)

First_checkConsonance(interval, position, r) ==
    IF Interval_isDissonant(interval)
    THEN pushError(r, Issue("consonance", position, ERROR))
    ELSE r

First_checkUnison(interval, position, length, r) ==
    IF interval.simple.name = "P1" /\ position # 0 /\ position # length - 1
    THEN pushError(r, Issue("unison", position, ERROR))
    ELSE r

checkVoiceCrossing(cf, cp, pos, position, r) ==
    LET cfMidi == Pitch_toMidi(cf)
        cpMidi == Pitch_toMidi(cp)
        crossed == (pos = "upper" /\ cpMidi < cfMidi) \/
                   (pos = "lower" /\ cpMidi > cfMidi)
    IN  IF crossed THEN pushError(r, Issue("voice-crossing", position, ERROR)) ELSE r

\* the parallel-perfect test reporting the first position of the pair
parallelsIssue_atFirst(prevInterval, currInterval, motion, position, r) ==
    IF /\ prevInterval.simple.name = "P5" /\ currInterval.simple.name = "P5"
       /\ motion = "similar"
    THEN pushError(r, Issue("parallel-fifths", position - 1, ERROR))
    ELSE r

\* the parallel-perfect test shared by checkParallels, checkStrongBeatParallels
\* and checkDownbeatParallels
parallelsIssue(prevInterval, currInterval, motion, position, r) ==
    LET prevPerfect == Interval_isPerfectConsonance(prevInterval) /\
                       prevInterval.simple.name # "P1"
        currPerfect == Interval_isPerfectConsonance(currInterval) /\
                       currInterval.simple.name # "P1"
    IN  IF prevPerfect /\ currPerfect /\
           prevInterval.simple.name = currInterval.simple.name /\
           motion = "similar"
        THEN pushError(r, Issue(IF prevInterval.simple.name = "P5"
                                THEN "parallel-fifths" ELSE "parallel-octaves",
                                position, ERROR))
        ELSE r

\* the hidden-perfect test shared by checkParallels, checkStrongBeatHiddenParallels
\* and checkDownbeatHiddenParallels
hiddenIssue(prevInterval, currInterval, motion, prevCp, currCp, position, r) ==
    LET prevPerfect == Interval_isPerfectConsonance(prevInterval) /\
                       prevInterval.simple.name # "P1"
        currPerfect == Interval_isPerfectConsonance(currInterval) /\
                       currInterval.simple.name # "P1"
    IN  IF ~prevPerfect /\ currPerfect /\ motion = "similar"
        THEN LET cpInterval == Interval_between(prevCp, currCp)
                 isStepwise == cpInterval.simple.generic <= 2
             IN  IF ~isStepwise
                 THEN pushWarning(r, Issue(IF currInterval.simple.name = "P5"
                                           THEN "hidden-fifths" ELSE "hidden-octaves",
                                           position, WARNING))
                 ELSE r
        ELSE r

First_checkParallels(prevInterval, currInterval, prevCf, currCf, prevCp, currCp, position, r) ==
    LET motion == getMotionType(prevCf, currCf, prevCp, currCp)
    IN  hiddenIssue(prevInterval, currInterval, motion, prevCp, currCp, position,
            parallelsIssue(prevInterval, currInterval, motion, position, r))

\* the tritone check applied to rising motion only
checkMelodicTritone_risingOnly(prevNote, currNote, position, r) ==
    IF /\ Interval_isTritone(Interval_between(prevNote, currNote))
       /\ Interval_between(prevNote, currNote).direction = 1
    THEN pushError(r, Issue("tritone", position, ERROR))
    ELSE r

checkMelodicTritone(prevNote, currNote, position, r) ==
    IF Interval_isTritone(Interval_between(prevNote, currNote))
    THEN pushError(r, Issue("tritone", position, ERROR))
    ELSE r

First_analyzeMotion(prevCf, currCf, prevCp, currCp, position, r) ==
    IF getMotionType(prevCf, currCf, prevCp, currCp) = "similar"
    THEN pushSuggestion(r, Issue("motion-type", position, SUGGESTION))
    ELSE r

checkStepwise(prevNote, currNote, position, r) ==
    LET interval == Interval_between(prevNote, currNote)
        r1 == IF interval.simple.generic > 3
              THEN pushSuggestion(r, Issue("stepwise", position, SUGGESTION))
              ELSE r
    IN  IF interval.simple.generic > 6
        THEN pushWarning(r1, Issue("stepwise", position, WARNING))
        ELSE r1

First_checkStartInterval(cf, cp, pos, r) ==
    IF ~Interval_isPerfectConsonance(harmonicInterval(cf, cp, pos))
    THEN pushError(r, Issue("start-consonance", 0, ERROR))
    ELSE r

\* checkEndInterval letting the lower voice arrive from degree 2, 5 or 7
First_checkEndInterval_lowerLenient(cf, cp, k, m, pos, r) ==
    LET lastIdx == Len(cf) - 1
        interval == harmonicInterval(At(cf, lastIdx), At(cp, lastIdx), pos)
        r1 == IF interval.simple.name # "P1" /\ interval.simple.name # "P8"
              THEN pushError(r, Issue("end-consonance", lastIdx, ERROR))
              ELSE r
    IN  IF lastIdx > 0
        THEN LET penultimateDegree == Scale_getDegree(At(cp, lastIdx - 1), k, m)
             IN  IF pos = "upper"
                 THEN IF penultimateDegree # 7
                      THEN pushWarning(r1, Issue("leading-tone", lastIdx - 1, WARNING))
                      ELSE r1
                 ELSE IF penultimateDegree \notin {2, 5, 7}
                      THEN pushWarning(r1, Issue("cadence", lastIdx - 1, WARNING))
                      ELSE r1
        ELSE r1

First_checkEndInterval(cf, cp, k, m, pos, r) ==
    LET lastIdx == Len(cf) - 1
        interval == harmonicInterval(At(cf, lastIdx), At(cp, lastIdx), pos)
        r1 == IF interval.simple.name # "P1" /\ interval.simple.name # "P8"
              THEN pushError(r, Issue("end-consonance", lastIdx, ERROR))
              ELSE r
    IN  IF lastIdx > 0
        THEN LET penultimateDegree == Scale_getDegree(At(cp, lastIdx - 1), k, m)
             IN  IF pos = "upper"
                 THEN IF penultimateDegree # 7
                      THEN pushWarning(r1, Issue("leading-tone", lastIdx - 1, WARNING))
                      ELSE r1
                 ELSE IF penultimateDegree # 2
                      THEN pushWarning(r1, Issue("cadence", lastIdx - 1, WARNING))
                      ELSE r1
        ELSE r1

\* Math.min(...midis) / Math.max(...midis) over the sounding notes
lowestMidi(notes) ==
    CHOOSE lo \in {Pitch_toMidi(notes[i]) : i \in 1..Len(notes)} :
        \A i \in 1..Len(notes) : lo <= Pitch_toMidi(notes[i])

highestMidi(notes) ==
    CHOOSE hi \in {Pitch_toMidi(notes[i]) : i \in 1..Len(notes)} :
        \A i \in 1..Len(notes) : hi >= Pitch_toMidi(notes[i])

\* the range check with the limit of a major tenth that its message names
First_checkRange_tenth(cp, r) ==
    IF highestMidi(cp) - lowestMidi(cp) > 16
    THEN pushGlobalWarning(r, Issue("range", -1, WARNING))
    ELSE r

First_checkRange(cp, r) ==
    IF highestMidi(cp) - lowestMidi(cp) > 19
    THEN pushGlobalWarning(r, Issue("range", -1, WARNING))
    ELSE r

\* the inner span loop: some span in 3..min(5, length - i) joins degrees 4 and 7
\* across a tritone (the loop breaks at the first such span)
compoundTritoneSpans(notes, i, k, m) ==
    {span \in 3..min(5, Len(notes) - i) :
        LET startNote == At(notes, i)
            endNote == At(notes, i + span - 1)
            startDegree == Scale_getDegree(startNote, k, m)
            endDegree == Scale_getDegree(endNote, k, m)
        IN  /\ (startDegree = 4 /\ endDegree = 7) \/ (startDegree = 7 /\ endDegree = 4)
            /\ Interval_isTritone(Interval_between(startNote, endNote))}

First_checkCompoundTritones(cp, k, m, r) ==
    IF Len(cp) < 3 THEN r
    ELSE forLoop(LAMBDA i, acc :
                    IF compoundTritoneSpans(cp, i, k, m) # {}
                    THEN pushGlobalWarning(acc, Issue("compound-tritone", i, WARNING))
                    ELSE acc,
                 0, Len(cp) - 2, r)

\* notes: the melody; index: the counterpoint position of each melody note
checkCompoundDissonantLeaps(notes, index, r) ==
    IF Len(notes) < 3 THEN r
    ELSE forLoop(LAMBDA i, acc :
                    LET note1 == At(notes, i)
                        note2 == At(notes, i + 1)
                        note3 == At(notes, i + 2)
                        interval1 == Interval_between(note1, note2)
                        interval2 == Interval_between(note2, note3)
                        dir1 == sign(Pitch_toMidi(note2) - Pitch_toMidi(note1))
                        dir2 == sign(Pitch_toMidi(note3) - Pitch_toMidi(note2))
                        compoundInterval == Interval_between(note1, note3)
                    IN  IF /\ interval1.simple.generic > 2
                           /\ interval2.simple.generic > 2
                           /\ dir1 = dir2 /\ dir1 # 0
                           /\ \/ Interval_isDissonant(compoundInterval)
                              \/ compoundInterval.simple.generic = 7
                              \/ compoundInterval.simple.generic = 9
                        THEN pushGlobalWarning(acc,
                                 Issue("compound-dissonant-leap", At(index, i + 2), WARNING))
                        ELSE acc,
                 0, Len(notes) - 2, r)

First_checkBattutaParallels(cf, cp, pos, r) ==
    IF Len(cf) < 3 THEN r
    ELSE forLoop(LAMBDA i, acc :
            LET interval1 == harmonicInterval(At(cf, i), At(cp, i), pos)
            IN  IF ~Interval_isPerfectConsonance(interval1) \/ interval1.simple.name = "P1"
                THEN acc
                ELSE forLoop(LAMBDA g, acc2 :
                        LET interval2 == harmonicInterval(At(cf, i + g), At(cp, i + g), pos)
                            cfDir == sign(Pitch_toMidi(At(cf, i + g)) - Pitch_toMidi(At(cf, i)))
                            cpDir == sign(Pitch_toMidi(At(cp, i + g)) - Pitch_toMidi(At(cp, i)))
                            cpLeap == abs(Pitch_toMidi(At(cp, i + g)) -
                                          Pitch_toMidi(At(cp, i + g - 1)))
                            approachMotion == getMotionType(At(cf, i + g - 1), At(cf, i + g),
                                                            At(cp, i + g - 1), At(cp, i + g))
                        IN  IF /\ interval1.simple.name = interval2.simple.name
                               /\ cfDir = cpDir /\ cfDir # 0
                               /\ ~(cpLeap >= 5 /\ cpLeap <= 7 /\ approachMotion = "contrary")
                            THEN pushGlobalWarning(acc2,
                                     Issue(IF interval1.simple.name = "P5"
                                           THEN "battuta-fifths" ELSE "battuta-octaves",
                                           i + g, WARNING))
                            ELSE acc2,
                        2, min(3, Len(cf) - i - 1) + 1, acc),
            0, Len(cf) - 2, r)

\* the run-length scan of checkProlongedDirection; st carries the loop's locals
prolongedDirection(notes, index, threshold, r) ==
    IF Len(notes) < 4 THEN r
    ELSE LET scan == forLoop(LAMBDA i, st :
                        LET direction == sign(Pitch_toMidi(At(notes, i)) -
                                              Pitch_toMidi(At(notes, i - 1)))
                        IN  IF direction = 0 THEN st
                            ELSE IF direction = st.currentDirection
                            THEN [st EXCEPT !.directionCount = @ + 1]
                            ELSE [currentDirection |-> direction,
                                  directionCount |-> 1,
                                  start |-> i - 1,
                                  res |-> IF st.directionCount > threshold
                                          THEN pushGlobalWarning(st.res,
                                                   Issue("prolonged-direction",
                                                         At(index, st.start), WARNING))
                                          ELSE st.res],
                        1, Len(notes),
                        [currentDirection |-> 0, directionCount |-> 1,
                         start |-> 0, res |-> r])
         IN  IF scan.directionCount > threshold
             THEN pushGlobalWarning(scan.res,
                      Issue("prolonged-direction", At(index, scan.start), WARNING))
             ELSE scan.res

checkArpeggios(notes, index, k, m, r) ==
    IF Len(notes) < 3 THEN r
    ELSE forLoop(LAMBDA i, acc :
                    LET note1 == At(notes, i)
                        note2 == At(notes, i + 1)
                        note3 == At(notes, i + 2)
                        degree1 == Scale_getDegree(note1, k, m)
                        degree2 == Scale_getDegree(note2, k, m)
                        degree3 == Scale_getDegree(note3, k, m)
                    IN  IF degree1 = NoDegree \/ degree2 = NoDegree \/ degree3 = NoDegree
                        THEN acc
                        ELSE IF /\ triadPatterns(degree1, degree2, degree3)
                                /\ Interval_between(note1, note2).simple.generic >= 3
                                /\ Interval_between(note2, note3).simple.generic >= 3
                        THEN pushGlobalSuggestion(acc, Issue("arpeggio", At(index, i), SUGGESTION))
                        ELSE acc,
                 0, Len(notes) - 2, r)

\* positions 0..n-1 as the index array of a melody without rests
identityIndex(n) == [i \in 1..n |-> i - 1]

\* the run-length scan of checkExcessiveParallelConsonances over the positions
\* idxs (all positions in 1st species, the strong beats in 2nd); st = loop locals
excessiveParallels(cf, cp, pos, idxs, ratio, r) ==
    LET report(st, res) ==
            LET r1 == IF st.consecutiveThirds > 4
                      THEN pushGlobalSuggestion(res,
                               Issue("excessive-parallels", st.thirdsStart, SUGGESTION))
                      ELSE res
            IN  IF st.consecutiveSixths > 4
                THEN pushGlobalSuggestion(r1,
                         Issue("excessive-parallels", st.sixthsStart, SUGGESTION))
                ELSE r1
        scan == forLoop(LAMBDA si, st :
                    LET idx == At(idxs, si)
                        cpNote == At(cp, idx)
                    IN  IF cpNote = null
                        THEN [st EXCEPT !.consecutiveThirds = 0, !.consecutiveSixths = 0]
                        ELSE
                        LET interval == harmonicInterval(At(cf, idx \div ratio), cpNote, pos)
                            isThird == interval.simple.name \in {"m3", "M3"}
                            isSixth == interval.simple.name \in {"m6", "M6"}
                        IN  IF isThird
                            THEN [st EXCEPT !.thirdsStart = IF st.consecutiveThirds = 0
                                                            THEN idx ELSE @,
                                            !.consecutiveThirds = @ + 1,
                                            !.consecutiveSixths = 0]
                            ELSE IF isSixth
                            THEN [st EXCEPT !.sixthsStart = IF st.consecutiveSixths = 0
                                                            THEN idx ELSE @,
                                            !.consecutiveSixths = @ + 1,
                                            !.consecutiveThirds = 0]
                            ELSE [st EXCEPT !.res = report(st, st.res),
                                            !.consecutiveThirds = 0,
                                            !.consecutiveSixths = 0],
                    0, Len(idxs),
                    [consecutiveThirds |-> 0, consecutiveSixths |-> 0,
                     thirdsStart |-> 0, sixthsStart |-> 0, res |-> r])
    IN  report(scan, scan.res)

First_checkExcessiveParallelConsonances(cf, cp, pos, r) ==
    IF Len(cf) < 4 THEN r
    ELSE excessiveParallels(cf, cp, pos, identityIndex(Len(cf)), 1, r)

First_calculateScore(r) ==
    max(0, 100 - Len(r.errors) * 15 - Len(r.warnings) * 5 - Len(r.suggestions))

\* the LENGTH short-circuit without the assignment results.valid = false
lengthResult_validKept ==
    [NewResults EXCEPT !.errors = <<[rule |-> "LENGTH", severity |-> ERROR]>>]

\* the LENGTH short-circuit common to the three validate() functions
lengthResult ==
    [NewResults EXCEPT !.errors = <<[rule |-> "LENGTH", severity |-> ERROR]>>,
                       !.valid = FALSE]

\* the body of the per-position loop of FirstSpeciesValidator.validate
First_checkPosition(cf, cp, pos, i, r) ==
    LET length == Len(cf)
        interval == harmonicInterval(At(cf, i), At(cp, i), pos)
        r1 == First_checkConsonance(interval, i, r)
        r2 == First_checkUnison(interval, i, length, r1)
        r3 == checkVoiceCrossing(At(cf, i), At(cp, i), pos, i, r2)
    IN  IF i > 0
        THEN LET prevCf == At(cf, i - 1)
                 prevCp == At(cp, i - 1)
                 prevInterval == harmonicInterval(prevCf, prevCp, pos)
                 r4 == First_checkParallels(prevInterval, interval, prevCf, At(cf, i),
                                            prevCp, At(cp, i), i, r3)
                 r5 == checkMelodicTritone(prevCp, At(cp, i), i, r4)
                 r6 == First_analyzeMotion(prevCf, At(cf, i), prevCp, At(cp, i), i, r5)
             IN  checkStepwise(prevCp, At(cp, i), i, r6)
        ELSE r3

\* Pitch.parse(null) / Pitch.parse(undefined) raises a TypeError: once the
\* lengths agree every counterpoint entry is parsed, and cantusFirmus[0] is
\* parsed by checkStartInterval even when both arrays are empty
First_throws(cf, cp) ==
    Len(cf) = Len(cp) /\ (Len(cf) = 0 \/ \E i \in 1..Len(cp) : ~IsNote(cp[i]))

First_validate(cf, cp, k, m, pos) ==
    IF Len(cf) # Len(cp) THEN lengthResult
    ELSE
    LET length == Len(cf)
        r0 == initNoteResults(NewResults, length)
        r1 == forLoop(LAMBDA i, acc : First_checkPosition(cf, cp, pos, i, acc),
                      0, length, r0)
        r2 == First_checkStartInterval(At(cf, 0), At(cp, 0), pos, r1)
        r3 == First_checkEndInterval(cf, cp, k, m, pos, r2)
        r4 == First_checkRange(cp, r3)
        r5 == First_checkCompoundTritones(cp, k, m, r4)
        r6 == checkCompoundDissonantLeaps(cp, identityIndex(length), r5)
        r7 == First_checkBattutaParallels(cf, cp, pos, r6)
        r8 == prolongedDirection(cp, identityIndex(length), 8, r7)
        r9 == checkArpeggios(cp, identityIndex(length), k, m, r8)
        r10 == First_checkExcessiveParallelConsonances(cf, cp, pos, r9)
    IN  [r10 EXCEPT !.score = First_calculateScore(r10),
                    !.valid = Len(r10.errors) = 0]

-----------------------------------------------------------------------------
(* SecondSpeciesValidator (2:1) *)

Second_getMeasureIndex(cpIndex) == cpIndex \div 2

Second_isStrongBeat(cpIndex, cpLen) == cpIndex % 2 = 0 \/ cpIndex = cpLen - 1

Second_isWeakBeat(cpIndex, cpLen) == cpIndex % 2 = 1 /\ cpIndex # cpLen - 1

Second_getCFNote(cpIndex, cf) == At(cf, Second_getMeasureIndex(cpIndex))

Second_getStrongBeatIndices(cpLen) ==
    SelectSeq(identityIndex(cpLen), LAMBDA i : Second_isStrongBeat(i, cpLen))

\* the index member of each entry of getSoundingNotes(counterpoint)
soundingIndex(cp) == SelectSeq(identityIndex(Len(cp)), LAMBDA i : At(cp, i) # null)

\* the note member of each entry of getSoundingNotes(counterpoint)
soundingNotesOf(cp) == SelectSeq(cp, LAMBDA n : n # null)

\* isPassingTone of the 2nd and 3rd species validators; ratio is the species'
\* notes per measure and weak tells whether cpIndex is a weak beat.  The reason
\* texts (used only inside messages) are kept in ASCII, without the 2nd
\* species' parenthetical remarks; a weak beat of the 2nd species is odd, so
\* the 3rd species' prevIndex < 0 test never fires there
passingTone(cpIndex, cp, cf, pos, ratio, weak) ==
    LET cpLen == Len(cp)
        current == At(cp, cpIndex)
        prevIndex == cpIndex - 1
        prev == At(cp, prevIndex)
        nextIndex == cpIndex + 1
        next == At(cp, nextIndex)
    IN  IF ~weak THEN [valid |-> FALSE, reason |-> "No es tiempo debil"]
        ELSE IF current = null THEN [valid |-> FALSE, reason |-> "Silencio, no nota de paso"]
        ELSE IF prevIndex < 0 THEN [valid |-> FALSE, reason |-> "No hay nota anterior"]
        ELSE IF prev = null THEN [valid |-> FALSE, reason |-> "Nota anterior es silencio"]
        ELSE IF nextIndex >= cpLen THEN [valid |-> FALSE, reason |-> "No hay nota siguiente"]
        ELSE IF next = null THEN [valid |-> FALSE, reason |-> "Nota siguiente es nula"]
        ELSE IF Interval_between(prev, current).simple.generic > 2
        THEN [valid |-> FALSE, reason |-> "No hay grado conjunto desde la nota anterior"]
        ELSE IF Interval_between(current, next).simple.generic > 2
        THEN [valid |-> FALSE, reason |-> "No hay grado conjunto hacia la nota siguiente"]
        ELSE
        LET dir1 == sign(Pitch_toMidi(current) - Pitch_toMidi(prev))
            dir2 == sign(Pitch_toMidi(next) - Pitch_toMidi(current))
        IN  IF dir1 = 0 \/ dir2 = 0
            THEN [valid |-> FALSE, reason |-> "Repeticion de nota, no movimiento de escala"]
            ELSE IF dir1 # dir2
            THEN [valid |-> FALSE, reason |-> "Cambio de direccion: no es nota de paso"]
            ELSE IF Interval_isDissonant(
                        harmonicInterval(At(cf, prevIndex \div ratio), prev, pos))
            THEN [valid |-> FALSE,
                  reason |-> "Nota anterior no es consonante con el CF"]
            ELSE IF Interval_isDissonant(
                        harmonicInterval(At(cf, nextIndex \div ratio), next, pos))
            THEN [valid |-> FALSE,
                  reason |-> "Nota siguiente no es consonante con el CF"]
            ELSE [valid |-> TRUE, reason |-> "Nota de paso valida"]

\* isPassingTone looking only at whether the two neighbours sound
Second_isPassingTone_restsOnly(cpIndex, cp, cf, pos) ==
    IF At(cp, cpIndex - 1) = null \/ At(cp, cpIndex + 1) = null
    THEN [valid |-> FALSE, reason |-> "Nota anterior es silencio"]
    ELSE [valid |-> TRUE, reason |-> "Nota de paso valida"]

Second_isPassingTone(cpIndex, cp, cf, pos) ==
    passingTone(cpIndex, cp, cf, pos, 2, Second_isWeakBeat(cpIndex, Len(cp)))

Second_checkAnacrusis(cp, cpLen, r) ==
    forLoop(LAMBDA i, acc :
                IF At(cp, i) = null /\ i # 0
                THEN pushError(acc, Issue("anacrusis", i, ERROR))
                ELSE acc,
            0, cpLen, r)

\* a validator that stops analysing once an error has been recorded
Second_checkStrongBeatConsonance_unlessFailed(interval, position, r) ==
    IF Len(r.errors) > 0 THEN r
    ELSE IF Interval_isDissonant(interval)
    THEN pushError(r, Issue("consonance", position, ERROR))
    ELSE r

Second_checkStrongBeatConsonance(interval, position, r) ==
    IF Interval_isDissonant(interval)
    THEN pushError(r, Issue("consonance", position, ERROR))
    ELSE r

Second_checkWeakBeatDissonance(interval, position, cp, cf, pos, r) ==
    IF ~Interval_isDissonant(interval) THEN r
    ELSE LET ptResult == Second_isPassingTone(position, cp, cf, pos)
         IN  IF ~ptResult.valid
             THEN pushError(r, Issue("passing-tone", position, ERROR))
             ELSE r

Second_checkUnison(interval, position, cpLen, cp, r) ==
    IF interval.simple.name # "P1" THEN r
    ELSE LET isFirstSounding == (position = 0 /\ At(cp, 0) # null) \/
                                (position = 1 /\ At(cp, 0) = null)
             isLast == position = cpLen - 1
         IN  IF ~isFirstSounding /\ ~isLast
             THEN pushError(r, Issue("unison", position, ERROR))
             ELSE r

Second_checkNoteRepetition(prevNote, prevIndex, currNote, currIndex, cpLen, r) ==
    IF ~Second_isWeakBeat(prevIndex, cpLen) THEN r
    ELSE IF ~Second_isStrongBeat(currIndex, cpLen) THEN r
    ELSE IF Pitch_toMidi(prevNote) = Pitch_toMidi(currNote)
    THEN pushWarning(r, Issue("note-repetition", currIndex, WARNING))
    ELSE r

\* the loop over consecutive entries of idxs (strong beats or downbeats) that
\* checkStrongBeatParallels, ...HiddenParallels and ...Motion share; pairs with
\* a rest are skipped
strongPairs(cf, cp, idxs, ratio, Check(_, _, _, _, _, _), r) ==
    forLoop(LAMBDA si, acc :
                LET prevIdx == At(idxs, si - 1)
                    currIdx == At(idxs, si)
                    prevCp == At(cp, prevIdx)
                    currCp == At(cp, currIdx)
                IN  IF prevCp = null \/ currCp = null THEN acc
                    ELSE Check(At(cf, prevIdx \div ratio), At(cf, currIdx \div ratio),
                               prevCp, currCp, currIdx, acc),
            1, Len(idxs), r)

strongBeatParallels(cf, cp, pos, idxs, ratio, r) ==
    strongPairs(cf, cp, idxs, ratio,
        LAMBDA prevCF, currCF, prevCp, currCp, currIdx, acc :
            parallelsIssue(harmonicInterval(prevCF, prevCp, pos),
                           harmonicInterval(currCF, currCp, pos),
                           getMotionType(prevCF, currCF, prevCp, currCp), currIdx, acc),
        r)

strongBeatHiddenParallels(cf, cp, pos, idxs, ratio, r) ==
    strongPairs(cf, cp, idxs, ratio,
        LAMBDA prevCF, currCF, prevCp, currCp, currIdx, acc :
            hiddenIssue(harmonicInterval(prevCF, prevCp, pos),
                        harmonicInterval(currCF, currCp, pos),
                        getMotionType(prevCF, currCF, prevCp, currCp),
                        prevCp, currCp, currIdx, acc),
        r)

strongBeatMotion(cf, cp, idxs, ratio, r) ==
    strongPairs(cf, cp, idxs, ratio,
        LAMBDA prevCF, currCF, prevCp, currCp, currIdx, acc :
            IF getMotionType(prevCF, currCF, prevCp, currCp) = "similar"
            THEN pushSuggestion(acc, Issue("motion-type", currIdx, SUGGESTION))
            ELSE acc,
        r)

Second_checkStrongBeatParallels(cf, cp, pos, cpLen, r) ==
    strongBeatParallels(cf, cp, pos, Second_getStrongBeatIndices(cpLen), 2, r)

Second_checkStrongBeatHiddenParallels(cf, cp, pos, cpLen, r) ==
    strongBeatHiddenParallels(cf, cp, pos, Second_getStrongBeatIndices(cpLen), 2, r)

Second_checkStrongBeatMotion(cf, cp, pos, cpLen, r) ==
    strongBeatMotion(cf, cp, Second_getStrongBeatIndices(cpLen), 2, r)

Second_checkCrossBeatParallels(cf, cp, pos, cpLen, r) ==
    forLoop(LAMBDA i, acc :
                LET cp1 == At(cp, i)
                    cp2 == At(cp, i + 1)
                IN  IF cp1 = null \/ cp2 = null THEN acc
                    ELSE IF Second_isStrongBeat(i, cpLen) = Second_isStrongBeat(i + 1, cpLen)
                    THEN acc
                    ELSE
                    LET cf1 == Second_getCFNote(i, cf)
                        cf2 == Second_getCFNote(i + 1, cf)
                        interval1 == harmonicInterval(cf1, cp1, pos)
                        interval2 == harmonicInterval(cf2, cp2, pos)
                        perf1 == Interval_isPerfectConsonance(interval1) /\
                                 interval1.simple.name # "P1"
                        perf2 == Interval_isPerfectConsonance(interval2) /\
                                 interval2.simple.name # "P1"
                    IN  IF /\ perf1 /\ perf2
                           /\ interval1.simple.name = interval2.simple.name
                           /\ getMotionType(cf1, cf2, cp1, cp2) = "similar"
                        THEN pushWarning(acc, Issue("strong-weak-parallels", i + 1, WARNING))
                        ELSE acc,
            0, cpLen - 1, r)

Second_checkStartInterval(cf, cp, pos, r) ==
    LET startIdx == IF At(cp, 0) = null THEN 1 ELSE 0
        cpNote == At(cp, startIdx)
    IN  IF cpNote = null THEN r
        ELSE IF ~Interval_isPerfectConsonance(
                    harmonicInterval(Second_getCFNote(startIdx, cf), cpNote, pos))
        THEN pushError(r, Issue("start-consonance", startIdx, ERROR))
        ELSE r

\* checkEndInterval of the 2nd and 3rd species validators
endInterval(cf, cp, pos, cpLen, ratio, r) ==
    LET lastIdx == cpLen - 1
        cpNote == At(cp, lastIdx)
    IN  IF cpNote = null THEN r
        ELSE LET interval == harmonicInterval(At(cf, lastIdx \div ratio), cpNote, pos)
             IN  IF interval.simple.name # "P1" /\ interval.simple.name # "P8"
                 THEN pushError(r, Issue("end-consonance", lastIdx, ERROR))
                 ELSE r

Second_checkEndInterval(cf, cp, pos, cpLen, r) == endInterval(cf, cp, pos, cpLen, 2, r)

Second_checkLastNoteWhole(cpLen, r) ==
    IF cpLen > 1 /\ cpLen % 2 = 0
    THEN pushError(r, Issue("last-note-whole", cpLen - 1, ERROR))
    ELSE r

Second_checkCadence(cf, cp, k, m, pos, cpLen, r) ==
    IF cpLen < 3 THEN r
    ELSE
    LET penultimateWeakIdx == cpLen - 2
        penultimateWeakNote == At(cp, penultimateWeakIdx)
    IN  IF penultimateWeakNote = null THEN r
        ELSE IF ~Second_isWeakBeat(penultimateWeakIdx, cpLen) THEN r
        ELSE
        LET degree == Scale_getDegree(penultimateWeakNote, k, m)
            r1 == IF pos = "upper"
                  THEN IF degree # 7
                       THEN pushWarning(r, Issue("cadence-second-species",
                                                 penultimateWeakIdx, WARNING))
                       ELSE r
                  ELSE IF degree # 2 /\ degree # 5 /\ degree # 7
                       THEN pushWarning(r, Issue("cadence-second-species",
                                                 penultimateWeakIdx, WARNING))
                       ELSE r
            penultimateStrongIdx == cpLen - 3
            penultimateStrongNote == At(cp, penultimateStrongIdx)
        IN  IF penultimateStrongIdx >= 0 /\ penultimateStrongNote # null /\ pos = "upper"
            THEN LET strongDegree == Scale_getDegree(penultimateStrongNote, k, m)
                 IN  IF strongDegree # 6 /\ strongDegree # 5
                     THEN pushSuggestion(r1, Issue("cadence-second-species",
                                                   penultimateStrongIdx, SUGGESTION))
                     ELSE r1
            ELSE r1

\* checkRange of the 2nd species validator (rests are filtered out)
Second_checkRange(cp, r) ==
    LET notes == soundingNotesOf(cp)
    IN  IF Len(notes) = 0 THEN r
        ELSE IF highestMidi(notes) - lowestMidi(notes) > 19
        THEN pushGlobalWarning(r, Issue("range", -1, WARNING))
        ELSE r

\* checkCompoundTritones of the 2nd and 3rd species validators: the first span
\* that joins degrees 4 and 7 across a tritone either is the cadential exception
\* or yields the warning, and ends the inner loop
checkCompoundTritones(soundingNotes, sounding, k, m, r) ==
    IF Len(soundingNotes) < 3 THEN r
    ELSE forLoop(LAMBDA i, acc :
                    LET spans == compoundTritoneSpans(soundingNotes, i, k, m)
                    IN  IF spans = {} THEN acc
                        ELSE
                        LET span == CHOOSE sp \in spans : \A o \in spans : sp <= o
                            endDegree == Scale_getDegree(At(soundingNotes, i + span - 1), k, m)
                        IN  IF endDegree = 7 /\ i + span - 1 = Len(soundingNotes) - 2
                            THEN acc
                            ELSE pushGlobalWarning(acc,
                                     Issue("compound-tritone", At(sounding, i), WARNING)),
                 0, Len(soundingNotes) - 2, r)

Second_checkExcessiveParallelConsonances(cf, cp, pos, cpLen, r) ==
    LET strongIndices == Second_getStrongBeatIndices(cpLen)
    IN  IF Len(strongIndices) < 4 THEN r
        ELSE excessiveParallels(cf, cp, pos, strongIndices, 2, r)

Second_checkBattutaParallels(cf, cp, pos, cpLen, r) ==
    LET strongIndices == Second_getStrongBeatIndices(cpLen)
    IN  IF Len(strongIndices) < 3 THEN r
        ELSE forLoop(LAMBDA si, acc :
                LET idx1 == At(strongIndices, si)
                    cp1 == At(cp, idx1)
                IN  IF cp1 = null THEN acc
                    ELSE
                    LET cf1 == Second_getCFNote(idx1, cf)
                        interval1 == harmonicInterval(cf1, cp1, pos)
                    IN  IF ~Interval_isPerfectConsonance(interval1) \/
                           interval1.simple.name = "P1"
                        THEN acc
                        ELSE forLoop(LAMBDA g, acc2 :
                                LET idx2 == At(strongIndices, si + g)
                                    cp2 == At(cp, idx2)
                                IN  IF cp2 = null THEN acc2
                                    ELSE
                                    LET cf2 == Second_getCFNote(idx2, cf)
                                        interval2 == harmonicInterval(cf2, cp2, pos)
                                        cfDir == sign(Pitch_toMidi(cf2) - Pitch_toMidi(cf1))
                                        cpDir == sign(Pitch_toMidi(cp2) - Pitch_toMidi(cp1))
                                        prevStrongIdx == At(strongIndices, si + g - 1)
                                        prevCp == At(cp, prevStrongIdx)
                                        excepted ==
                                            /\ prevCp # null
                                            /\ LET cpLeap == abs(Pitch_toMidi(cp2) -
                                                                 Pitch_toMidi(prevCp))
                                               IN  /\ cpLeap >= 5 /\ cpLeap <= 7
                                                   /\ getMotionType(
                                                          Second_getCFNote(prevStrongIdx, cf),
                                                          cf2, prevCp, cp2) = "contrary"
                                    IN  IF /\ interval1.simple.name = interval2.simple.name
                                           /\ cfDir = cpDir /\ cfDir # 0
                                           /\ ~excepted
                                        THEN pushGlobalWarning(acc2,
                                                 Issue(IF interval1.simple.name = "P5"
                                                       THEN "battuta-fifths"
                                                       ELSE "battuta-octaves",
                                                       idx2, WARNING))
                                        ELSE acc2,
                                2, min(3, Len(strongIndices) - si - 1) + 1, acc),
                0, Len(strongIndices) - 2, r)

Second_calculateScore(r) ==
    max(0, 100 - Len(r.errors) * 10 - Len(r.warnings) * 4 - Len(r.suggestions))

\* the body of the per-note loop of SecondSpeciesValidator.validate
Second_checkPosition(cf, cp, pos, i, r) ==
    LET cpLen == Len(cp)
        cpNote == At(cp, i)
    IN  IF cpNote = null THEN r
        ELSE
        LET cfNote == Second_getCFNote(i, cf)
            interval == harmonicInterval(cfNote, cpNote, pos)
            r1 == IF Second_isStrongBeat(i, cpLen)
                  THEN Second_checkUnison(interval, i, cpLen, cp,
                           Second_checkStrongBeatConsonance(interval, i, r))
                  ELSE r
            r2 == IF Second_isWeakBeat(i, cpLen)
                  THEN Second_checkWeakBeatDissonance(interval, i, cp, cf, pos, r1)
                  ELSE r1
        IN  checkVoiceCrossing(cfNote, cpNote, pos, i, r2)

\* the body of the loop over consecutive sounding notes
Second_checkMelodic(sounding, cp, si, r) ==
    LET prevIndex == At(sounding, si - 1)
        currIndex == At(sounding, si)
        prevNote == At(cp, prevIndex)
        currNote == At(cp, currIndex)
        r1 == checkMelodicTritone(prevNote, currNote, currIndex, r)
        r2 == checkStepwise(prevNote, currNote, currIndex, r1)
    IN  Second_checkNoteRepetition(prevNote, prevIndex, currNote, currIndex, Len(cp), r2)

\* checkStartInterval parses counterpoint[1] whenever counterpoint[0] is a rest;
\* with a one-note counterpoint that entry is undefined and Pitch.parse raises
Second_throws(cf, cp) ==
    Len(cp) = Len(cf) * 2 - 1 /\ At(cp, 0) = null /\ At(cp, 1) = undefined

Second_validate(cf, cp, k, m, pos) ==
    IF Len(cp) # Len(cf) * 2 - 1 THEN lengthResult
    ELSE
    LET cpLen == Len(cp)
        r0 == initNoteResults(NewResults, cpLen)
        r1 == Second_checkAnacrusis(cp, cpLen, r0)
        sounding == soundingIndex(cp)
        r2 == forLoop(LAMBDA i, acc : Second_checkPosition(cf, cp, pos, i, acc),
                      0, cpLen, r1)
        r3 == forLoop(LAMBDA si, acc : Second_checkMelodic(sounding, cp, si, acc),
                      1, Len(sounding), r2)
        r4 == Second_checkStrongBeatParallels(cf, cp, pos, cpLen, r3)
        r5 == Second_checkStrongBeatHiddenParallels(cf, cp, pos, cpLen, r4)
        r6 == Second_checkStrongBeatMotion(cf, cp, pos, cpLen, r5)
        r7 == Second_checkCrossBeatParallels(cf, cp, pos, cpLen, r6)
        r8 == Second_checkStartInterval(cf, cp, pos, r7)
        r9 == Second_checkEndInterval(cf, cp, pos, cpLen, r8)
        r10 == Second_checkLastNoteWhole(cpLen, r9)
        r11 == Second_checkCadence(cf, cp, k, m, pos, cpLen, r10)
        r12 == Second_checkRange(cp, r11)
        soundingNotes == soundingNotesOf(cp)
        r13 == checkCompoundTritones(soundingNotes, sounding, k, m, r12)
        r14 == checkCompoundDissonantLeaps(soundingNotes, sounding, r13)
        r15 == prolongedDirection(soundingNotes, sounding, 8, r14)
        r16 == checkArpeggios(soundingNotes, sounding, k, m, r15)
        r17 == Second_checkExcessiveParallelConsonances(cf, cp, pos, cpLen, r16)
        r18 == Second_checkBattutaParallels(cf, cp, pos, cpLen, r17)
    IN  [r18 EXCEPT !.score = Second_calculateScore(r18),
                    !.valid = Len(r18.errors) = 0]

-----------------------------------------------------------------------------
(* ThirdSpeciesValidator (4:1) *)

Third_getMeasureIndex(cpIndex) == cpIndex \div 4

Third_isDownbeat(cpIndex, cpLen) == cpIndex % 4 = 0 \/ cpIndex = cpLen - 1

Third_isSemiStrong(cpIndex, cpLen) == cpIndex % 4 = 2 /\ cpIndex # cpLen - 1

\* beat 2 alone taken as weak
Third_isWeakBeat_beatTwoOnly(cpIndex, cpLen) ==
    cpIndex % 4 = 1 /\ cpIndex # cpLen - 1

Third_isWeakBeat(cpIndex, cpLen) ==
    LET beat == cpIndex % 4
    IN  (beat = 1 \/ beat = 3) /\ cpIndex # cpLen - 1

Third_getCFNote(cpIndex, cf) == At(cf, Third_getMeasureIndex(cpIndex))

Third_getDownbeatIndices(cpLen) ==
    SelectSeq(identityIndex(cpLen), LAMBDA i : Third_isDownbeat(i, cpLen))

Third_isPassingTone(cpIndex, cp, cf, pos) ==
    passingTone(cpIndex, cp, cf, pos, 4, Third_isWeakBeat(cpIndex, Len(cp)))

Third_checkCambiataAt(startIndex, cp, cf, pos, cpLen) ==
    IF startIndex < 0 \/ startIndex + 4 >= cpLen THEN FALSE
    ELSE
    LET n1 == At(cp, startIndex)
        n2 == At(cp, startIndex + 1)
        n3 == At(cp, startIndex + 2)
        n4 == At(cp, startIndex + 3)
        n5 == At(cp, startIndex + 4)
    IN  IF n1 = null \/ n2 = null \/ n3 = null \/ n4 = null \/ n5 = null THEN FALSE
        ELSE
        LET m1 == Pitch_toMidi(n1)
            m2 == Pitch_toMidi(n2)
            m3 == Pitch_toMidi(n3)
            m4 == Pitch_toMidi(n4)
            m5 == Pitch_toMidi(n5)
            int12 == Interval_between(n1, n2)
            int23 == Interval_between(n2, n3)
            int34 == Interval_between(n3, n4)
            int45 == Interval_between(n4, n5)
            dir1 == sign(m2 - m1)
            interval1 == harmonicInterval(Third_getCFNote(startIndex, cf), n1, pos)
            interval5 == harmonicInterval(Third_getCFNote(startIndex + 4, cf), n5, pos)
        IN  IF dir1 = 0 THEN FALSE
            ELSE IF dir1 < 0 /\
                    (\/ int12.simple.generic # 2 \/ m2 >= m1
                     \/ int23.simple.generic # 3 \/ m3 >= m2
                     \/ int34.simple.generic # 2 \/ m4 <= m3
                     \/ int45.simple.generic # 2 \/ m5 <= m4)
            THEN FALSE
            ELSE IF dir1 > 0 /\
                    (\/ int12.simple.generic # 2 \/ m2 <= m1
                     \/ int23.simple.generic # 3 \/ m3 <= m2
                     \/ int34.simple.generic # 2 \/ m4 >= m3
                     \/ int45.simple.generic # 2 \/ m5 >= m4)
            THEN FALSE
            ELSE IF Interval_isDissonant(interval1) THEN FALSE
            ELSE IF Interval_isDissonant(interval5) THEN FALSE
            ELSE IF Interval_isTritone(interval5) THEN FALSE
            ELSE TRUE

\* notePosition 0 stands for the absent field of the two refusals
Third_isCambiata(cpIndex, cp, cf, pos) ==
    LET cpLen == Len(cp)
    IN  IF At(cp, cpIndex) = null
        THEN [valid |-> FALSE, reason |-> "Silencio", notePosition |-> 0]
        ELSE IF Third_checkCambiataAt(cpIndex - 1, cp, cf, pos, cpLen)
        THEN [valid |-> TRUE, reason |-> "Nota 2 de cambiata valida", notePosition |-> 2]
        ELSE IF Third_checkCambiataAt(cpIndex - 2, cp, cf, pos, cpLen)
        THEN [valid |-> TRUE, reason |-> "Nota 3 de cambiata valida", notePosition |-> 3]
        ELSE IF Third_checkCambiataAt(cpIndex - 3, cp, cf, pos, cpLen)
        THEN [valid |-> TRUE, reason |-> "Nota 4 de cambiata valida", notePosition |-> 4]
        ELSE [valid |-> FALSE, reason |-> "No es parte de una cambiata valida",
              notePosition |-> 0]

Third_isStrongBeatPassingTone(cpIndex, cp, cf, pos) ==
    LET cpLen == Len(cp)
        current == At(cp, cpIndex)
        prevIndex == cpIndex - 1
        prev == At(cp, prevIndex)
        nextIndex == cpIndex + 1
        next == At(cp, nextIndex)
    IN  IF ~Third_isSemiStrong(cpIndex, cpLen)
        THEN [valid |-> FALSE, reason |-> "No es tiempo 3 (semi-fuerte)"]
        ELSE IF current = null THEN [valid |-> FALSE, reason |-> "Silencio"]
        ELSE IF prevIndex < 0 THEN [valid |-> FALSE, reason |-> "No hay nota anterior"]
        ELSE IF prev = null THEN [valid |-> FALSE, reason |-> "Nota anterior es silencio"]
        ELSE IF nextIndex >= cpLen THEN [valid |-> FALSE, reason |-> "No hay nota siguiente"]
        ELSE IF next = null THEN [valid |-> FALSE, reason |-> "Nota siguiente es nula"]
        ELSE IF Interval_between(prev, current).simple.generic > 2
        THEN [valid |-> FALSE, reason |-> "No hay grado conjunto desde la nota anterior"]
        ELSE IF Interval_between(current, next).simple.generic > 2
        THEN [valid |-> FALSE, reason |-> "No hay grado conjunto hacia la nota siguiente"]
        ELSE
        LET dir1 == sign(Pitch_toMidi(current) - Pitch_toMidi(prev))
            dir2 == sign(Pitch_toMidi(next) - Pitch_toMidi(current))
        IN  IF dir1 = 0 \/ dir2 = 0 \/ dir1 # dir2
            THEN [valid |-> FALSE, reason |-> "No es movimiento escalar continuo"]
            ELSE IF Interval_between(prev, next).simple.generic # 3
            THEN [valid |-> FALSE, reason |-> "No es el centro de un intervalo de 3a"]
            ELSE IF Interval_isDissonant(
                        harmonicInterval(Third_getCFNote(prevIndex, cf), prev, pos))
            THEN [valid |-> FALSE, reason |-> "Nota anterior no es consonante con el CF"]
            ELSE IF Interval_isDissonant(
                        harmonicInterval(Third_getCFNote(nextIndex, cf), next, pos))
            THEN [valid |-> FALSE, reason |-> "Nota siguiente no es consonante con el CF"]
            ELSE [valid |-> TRUE, reason |-> "Nota de paso en tiempo fuerte valida"]

\* the reason member, used only inside messages, is left out
Third_classifyDissonance(cpIndex, cp, cf, pos) ==
    LET cpLen == Len(cp)
        invalid == [type |-> "invalid", valid |-> FALSE]
    IN  IF Third_isDownbeat(cpIndex, cpLen) THEN invalid
        ELSE IF Third_isSemiStrong(cpIndex, cpLen)
        THEN IF Third_isStrongBeatPassingTone(cpIndex, cp, cf, pos).valid
             THEN [type |-> "strong-passing-tone", valid |-> TRUE]
             ELSE IF Third_isCambiata(cpIndex, cp, cf, pos).valid
             THEN [type |-> "cambiata", valid |-> TRUE]
             ELSE invalid
        ELSE IF Third_isWeakBeat(cpIndex, cpLen)
        THEN IF Third_isPassingTone(cpIndex, cp, cf, pos).valid
             THEN [type |-> "passing-tone", valid |-> TRUE]
             ELSE IF Third_isCambiata(cpIndex, cp, cf, pos).valid
             THEN [type |-> "cambiata", valid |-> TRUE]
             ELSE invalid
        ELSE invalid

\* checkAnacrusis leaving positions 0-2 unchecked whatever position 0 holds
Third_checkAnacrusis_fromThree(cp, cpLen, r) ==
    forLoop(LAMBDA i, acc :
                IF At(cp, i) = null
                THEN pushError(acc, Issue("unison", i, ERROR))
                ELSE acc,
            3, cpLen, r)

\* a rest after the allowed anacrusis is reported under the reused rule 'unison'
Third_checkAnacrusis(cp, cpLen, r) ==
    LET hasAnacrusis == At(cp, 0) = null
        startCheck == IF hasAnacrusis THEN 3 ELSE 0
    IN  forLoop(LAMBDA i, acc :
                    IF At(cp, i) = null
                    THEN pushError(acc, Issue("unison", i, ERROR))
                    ELSE acc,
                startCheck, cpLen, r)

\* checkDownbeatConsonance asking for a perfect consonance
Third_checkDownbeatConsonance_perfectOnly(interval, position, r) ==
    IF ~Interval_isPerfectConsonance(interval)
    THEN pushError(r, Issue("consonance", position, ERROR))
    ELSE r

Third_checkDownbeatConsonance(interval, position, r) ==
    IF Interval_isDissonant(interval)
    THEN pushError(r, Issue("consonance", position, ERROR))
    ELSE r

Third_checkBeatThreeConsonance(interval, position, cp, cf, pos, r) ==
    IF ~Interval_isDissonant(interval) THEN r
    ELSE IF ~Third_classifyDissonance(position, cp, cf, pos).valid
    THEN pushError(r, Issue("beat-three-consonance", position, ERROR))
    ELSE pushSuggestion(r, Issue("passing-tone-strong", position, SUGGESTION))

Third_checkWeakBeatDissonance(interval, position, cp, cf, pos, r) ==
    IF ~Interval_isDissonant(interval) THEN r
    ELSE IF ~Third_classifyDissonance(position, cp, cf, pos).valid
    THEN pushError(r, Issue("passing-tone", position, ERROR))
    ELSE r

\* _getFirstSoundingIndex: 0 when every entry is a rest
Third_getFirstSoundingIndex(cp) ==
    LET sounding == soundingIndex(cp)
    IN  IF Len(sounding) = 0 THEN 0 ELSE sounding[1]

Third_checkUnison(interval, position, cpLen, cp, r) ==
    IF interval.simple.name # "P1" THEN r
    ELSE LET isFirst == position = Third_getFirstSoundingIndex(cp)
             isLast == position = cpLen - 1
         IN  IF ~isFirst /\ ~isLast
             THEN pushError(r, Issue("unison", position, ERROR))
             ELSE r

Third_checkDownbeatParallels(cf, cp, pos, cpLen, r) ==
    strongBeatParallels(cf, cp, pos, Third_getDownbeatIndices(cpLen), 4, r)

Third_checkDownbeatHiddenParallels(cf, cp, pos, cpLen, r) ==
    strongBeatHiddenParallels(cf, cp, pos, Third_getDownbeatIndices(cpLen), 4, r)

Third_checkDownbeatMotion(cf, cp, pos, cpLen, r) ==
    strongBeatMotion(cf, cp, Third_getDownbeatIndices(cpLen), 4, r)

Third_checkStartInterval(cf, cp, pos, r) ==
    LET startIdx == Third_getFirstSoundingIndex(cp)
        cpNote == At(cp, startIdx)
    IN  IF cpNote = null THEN r
        ELSE IF ~Interval_isPerfectConsonance(
                    harmonicInterval(Third_getCFNote(startIdx, cf), cpNote, pos))
        THEN pushError(r, Issue("start-consonance", startIdx, ERROR))
        ELSE r

Third_checkEndInterval(cf, cp, pos, cpLen, r) == endInterval(cf, cp, pos, cpLen, 4, r)

\* the issue goes to results.errors only
Third_checkLastNoteWhole(cpLen, r) ==
    IF (cpLen + 3) % 4 # 0
    THEN [r EXCEPT !.errors = Append(@, Issue("consonance", cpLen - 1, ERROR))]
    ELSE r

Third_checkCadence(cf, cp, k, m, pos, cpLen, r) ==
    IF cpLen < 5 THEN r
    ELSE
    LET penultimateBeat4Idx == cpLen - 2
        penultimateBeat4Note == At(cp, penultimateBeat4Idx)
    IN  IF penultimateBeat4Note = null THEN r
        ELSE
        LET degree == Scale_getDegree(penultimateBeat4Note, k, m)
        IN  IF pos = "upper"
            THEN IF degree # 7
                 THEN pushWarning(r, Issue("cadence-third-species",
                                           penultimateBeat4Idx, WARNING))
                 ELSE r
            ELSE IF degree # 2 /\ degree # 5 /\ degree # 7
                 THEN pushWarning(r, Issue("cadence-third-species",
                                           penultimateBeat4Idx, WARNING))
                 ELSE r

\* st carries repeatCount through the loop
\* the repetition check warning from the second equal note on
Third_checkNoteRepetition_fromTwo(soundingNotes, sounding, r) ==
    IF Len(sounding) < 3 THEN r
    ELSE forLoop(LAMBDA i, acc :
                    IF Pitch_toMidi(At(soundingNotes, i)) =
                       Pitch_toMidi(At(soundingNotes, i - 1))
                    THEN pushGlobalWarning(acc,
                             Issue("note-repetition", At(sounding, i), WARNING))
                    ELSE acc,
                 1, Len(sounding), r)

Third_checkNoteRepetition(soundingNotes, sounding, r) ==
    IF Len(sounding) < 3 THEN r
    ELSE forLoop(LAMBDA i, st :
                    IF Pitch_toMidi(At(soundingNotes, i)) =
                       Pitch_toMidi(At(soundingNotes, i - 1))
                    THEN [repeatCount |-> st.repeatCount + 1,
                          res |-> IF st.repeatCount + 1 >= 3
                                  THEN pushGlobalWarning(st.res,
                                           Issue("note-repetition", At(sounding, i), WARNING))
                                  ELSE st.res]
                    ELSE [st EXCEPT !.repeatCount = 1],
                 1, Len(sounding), [repeatCount |-> 1, res |-> r]).res

Third_calculateScore(r) ==
    max(0, 100 - Len(r.errors) * 8 - Len(r.warnings) * 3 - Len(r.suggestions))

\* the body of the per-note loop of ThirdSpeciesValidator.validate
Third_checkPosition(cf, cp, pos, i, r) ==
    LET cpLen == Len(cp)
        cpNote == At(cp, i)
    IN  IF cpNote = null THEN r
        ELSE
        LET cfNote == Third_getCFNote(i, cf)
            interval == harmonicInterval(cfNote, cpNote, pos)
            r1 == IF Third_isDownbeat(i, cpLen)
                  THEN Third_checkUnison(interval, i, cpLen, cp,
                           Third_checkDownbeatConsonance(interval, i, r))
                  ELSE r
            r2 == IF Third_isSemiStrong(i, cpLen)
                  THEN Third_checkBeatThreeConsonance(interval, i, cp, cf, pos, r1)
                  ELSE r1
            r3 == IF Third_isWeakBeat(i, cpLen)
                  THEN Third_checkWeakBeatDissonance(interval, i, cp, cf, pos, r2)
                  ELSE r2
        IN  checkVoiceCrossing(cfNote, cpNote, pos, i, r3)

Third_validate(cf, cp, k, m, pos) ==
    IF Len(cp) # Len(cf) * 4 - 3 THEN lengthResult
    ELSE
    LET cpLen == Len(cp)
        r0 == initNoteResults(NewResults, cpLen)
        r1 == Third_checkAnacrusis(cp, cpLen, r0)
        sounding == soundingIndex(cp)
        r2 == forLoop(LAMBDA i, acc : Third_checkPosition(cf, cp, pos, i, acc),
                      0, cpLen, r1)
        r3 == forLoop(LAMBDA si, acc :
                          checkMelodicTritone(At(cp, At(sounding, si - 1)),
                                              At(cp, At(sounding, si)),
                                              At(sounding, si), acc),
                      1, Len(sounding), r2)
        r4 == Third_checkDownbeatParallels(cf, cp, pos, cpLen, r3)
        r5 == Third_checkDownbeatHiddenParallels(cf, cp, pos, cpLen, r4)
        r6 == Third_checkDownbeatMotion(cf, cp, pos, cpLen, r5)
        r7 == Third_checkStartInterval(cf, cp, pos, r6)
        r8 == Third_checkEndInterval(cf, cp, pos, cpLen, r7)
        r9 == Third_checkLastNoteWhole(cpLen, r8)
        r10 == Third_checkCadence(cf, cp, k, m, pos, cpLen, r9)
        soundingNotes == soundingNotesOf(cp)
        r11 == checkCompoundTritones(soundingNotes, sounding, k, m, r10)
        r12 == prolongedDirection(soundingNotes, sounding, 11, r11)
        r13 == checkArpeggios(soundingNotes, sounding, k, m, r12)
        r14 == Third_checkNoteRepetition(soundingNotes, sounding, r13)
    IN  [r14 EXCEPT !.score = Third_calculateScore(r14),
                    !.valid = Len(r14.errors) = 0]

-----------------------------------------------------------------------------
(* Exercises under validation *)

C4 == Note("C", "", 4)

D4 == Note("D", "", 4)

E4 == Note("E", "", 4)

F4 == Note("F", "", 4)

G4 == Note("G", "", 4)

A4 == Note("A", "", 4)

B4 == Note("B", "", 4)

C5 == Note("C", "", 5)

D5 == Note("D", "", 5)

\* longest cantus firmus, and longest counterpoint, of the short exercises
MaxCF == 3

MaxCP == 3

G5 == Note("G", "", 5)

B5 == Note("B", "", 5)

\* calls of validate on one exercise
MaxCalls == 2

CFNotes == {C4, D4}

CPNotes == {C4, D4, E4, F4, G4, A4, B4, C5, D5, null}

\* the cantus firmus and the entries of the 3rd-species exercises (4:1)
QuarterCF == <<C4, D4>>

QuarterNotes == {C4, D4, E4, G4, A4, B4, null}

SeqsOver(S, n) == [1..n -> S]

\* exercises of every length up to the bounds, so that each validator sees
\* counterpoints of its own length as well as mismatched ones
ShortExercise ==
    /\ \E n \in 0..MaxCF : cantusFirmus \in SeqsOver(CFNotes, n)
    /\ \E n \in 0..MaxCP : counterpoint \in SeqsOver(CPNotes, n)

\* two measures of four notes against one, with or without rests
QuarterExercise ==
    /\ cantusFirmus = QuarterCF
    /\ counterpoint \in SeqsOver(QuarterNotes, Len(QuarterCF) * 4 - 3)

\* counterpoint notes up to a fourteenth apart, with sixths, sevenths,
\* octaves and simple and compound tritones among them
MelodicNotes == {C4, F4, B4, C5, G5, B5, null}

\* a counterpoint of any of the three species' lengths over the two-note
\* cantus firmus, with wide leaps, repeated notes and rests
MelodicExercise ==
    /\ cantusFirmus = QuarterCF
    /\ \E n \in {Len(QuarterCF), Len(QuarterCF) * 2 - 1, Len(QuarterCF) * 4 - 3} :
          counterpoint \in SeqsOver(MelodicNotes, n)

\* the exercise object handed to validate(); no validator has run yet
Init ==
    /\ ShortExercise \/ QuarterExercise
    /\ key = [name |-> "C", accidental |-> ""]
    /\ mode = "major"
    /\ cpPosition \in {"upper", "lower"}
    /\ validator = "none"
    /\ outcome = "pending"
    /\ results = NewResults
    /\ calls = 0
    /\ op = <<>> /\ arg = null /\ ret = null

\* ThirdSpeciesValidator.validate guards every access to a rest and to a
\* missing entry, and raises on no exercise
Third_throws(cf, cp) == FALSE

\* an array of the exercise as a call of validate leaves it: an in-place
\* removal of the rests, which no validator performs (soundingNotes is a copy
\* made by filter)
leftInPlace_restsRemoved(notes) == SelectSeq(notes, LAMBDA n : n # null)

\* an array of the exercise as a call of validate leaves it: the validators
\* destructure the exercise and only read its arrays
leftInPlace(notes) == notes

\* a call of validate(exercise) on the validator of species v: it raises a
\* TypeError, leaving no result, or returns its results object
Validate(v, throws(_, _), validate(_, _, _, _, _)) ==
    /\ validator = "none"
    /\ validator' = v
    /\ calls' = calls + 1
    /\ IF throws(cantusFirmus, counterpoint)
       THEN outcome' = "threw" /\ results' = results
       ELSE /\ outcome' = "returned"
            /\ results' = validate(cantusFirmus, counterpoint, key, mode, cpPosition)
    /\ cantusFirmus' = leftInPlace(cantusFirmus)
    /\ counterpoint' = leftInPlace(counterpoint)
    /\ UNCHANGED <<key, mode, cpPosition, op, arg, ret>>

\* a further call of validate(exercise) on the same validator and the same
\* exercise object; the results object is built anew by every call
ValidateAgain(v, throws(_, _), validate(_, _, _, _, _)) ==
    /\ validator = v
    /\ calls < MaxCalls
    /\ calls' = calls + 1
    /\ IF throws(cantusFirmus, counterpoint)
       THEN outcome' = "threw" /\ results' = results
       ELSE /\ outcome' = "returned"
            /\ results' = validate(cantusFirmus, counterpoint, key, mode, cpPosition)
    /\ cantusFirmus' = leftInPlace(cantusFirmus)
    /\ counterpoint' = leftInPlace(counterpoint)
    /\ UNCHANGED <<validator, key, mode, cpPosition, op, arg, ret>>

\* FirstSpeciesValidator.validate(exercise)
ValidateFirst == Validate("first", First_throws, First_validate)

\* SecondSpeciesValidator.validate(exercise)
ValidateSecond == Validate("second", Second_throws, Second_validate)

\* ThirdSpeciesValidator.validate(exercise)
ValidateThird == Validate("third", Third_throws, Third_validate)

Next == ValidateFirst \/ ValidateSecond \/ ValidateThird

Spec == Init /\ [][Next]_vars

ValidateFirstAgain == ValidateAgain("first", First_throws, First_validate)

ValidateSecondAgain == ValidateAgain("second", Second_throws, Second_validate)

ValidateThirdAgain == ValidateAgain("third", Third_throws, Third_validate)

NextRepeated ==
    \/ ValidateFirst \/ ValidateSecond \/ ValidateThird
    \/ ValidateFirstAgain \/ ValidateSecondAgain \/ ValidateThirdAgain

InitMelodic ==
    /\ MelodicExercise
    /\ key = [name |-> "C", accidental |-> ""]
    /\ mode = "major"
    /\ cpPosition \in {"upper", "lower"}
    /\ validator = "none"
    /\ outcome = "pending"
    /\ results = NewResults
    /\ calls = 0
    /\ op = <<>> /\ arg = null /\ ret = null

\* one validation of an exercise whose counterpoint moves by wide leaps
SpecMelodic == InitMelodic /\ [][Next]_vars

\* no exercise at hand: the pitch and interval functions are called directly
NoExercise ==
    /\ cantusFirmus = <<>> /\ counterpoint = <<>>
    /\ key = [name |-> "C", accidental |-> ""]
    /\ mode = "major" /\ cpPosition = "upper"
    /\ validator = "none" /\ outcome = "pending"
    /\ results = NewResults /\ calls = 0

validation == <<cantusFirmus, counterpoint, key, mode, cpPosition,
                validator, outcome, results, calls>>

MidiNumbers == 0..127

\* every text a letter, an optional accidental and an octave digit can spell
NoteTexts ==
    {LETTERS[l] \o a \o DIGITS[d] :
        l \in 1..Len(LETTERS), a \in {"", "#", "b"}, d \in 1..Len(DIGITS)}

\* the notes of two octaves in every spelling
CoreNotes == {Note(LETTERS[l], a, o) : l \in 1..7, a \in {"", "#", "b"}, o \in {3, 4}}

\* measures of the cantus firmus in a question about metrical roles
MaxMeasures == 4

\* a species, a cantus firmus length, a counterpoint length and a position
MetricalQuestions ==
    {[kind |-> "position", species |-> v, cfLen |-> n, cpLen |-> c, index |-> i] :
        v \in {"second", "third"}, n \in 1..MaxMeasures,
        c \in 1..(4 * MaxMeasures), i \in 0..(4 * MaxMeasures - 1)}

\* the length test at the head of validate
passesLengthCheck(species, cfLen, cpLen) ==
    IF species = "second" THEN cpLen = cfLen * 2 - 1 ELSE cpLen = cfLen * 4 - 3

\* classifyDissonance reaches one of its three role branches
Third_positionRecognized(cpIndex, cpLen) ==
    \/ Third_isDownbeat(cpIndex, cpLen)
    \/ Third_isSemiStrong(cpIndex, cpLen)
    \/ Third_isWeakBeat(cpIndex, cpLen)

\* what the position helpers and checkLastNoteWhole answer for one position
metricalRoles(species, cpLen, cpIndex) ==
    IF species = "second"
    THEN [strong |-> Second_isStrongBeat(cpIndex, cpLen),
          semiStrong |-> FALSE,
          weak |-> Second_isWeakBeat(cpIndex, cpLen),
          measure |-> Second_getMeasureIndex(cpIndex),
          recognized |-> TRUE,
          lastNoteErrors |->
              Len(Second_checkLastNoteWhole(cpLen,
                      initNoteResults(NewResults, cpLen)).errors)]
    ELSE [strong |-> Third_isDownbeat(cpIndex, cpLen),
          semiStrong |-> Third_isSemiStrong(cpIndex, cpLen),
          weak |-> Third_isWeakBeat(cpIndex, cpLen),
          measure |-> Third_getMeasureIndex(cpIndex),
          recognized |-> Third_positionRecognized(cpIndex, cpLen),
          lastNoteErrors |->
              Len(Third_checkLastNoteWhole(cpLen,
                      initNoteResults(NewResults, cpLen)).errors)]

\* the argument of the first call: a MIDI number, the text of a note, a
\* generic number with a semitone count, two notes, or a metrical question
InitCore ==
    /\ NoExercise
    /\ op = <<>> /\ ret = null
    /\ arg \in [kind : {"midi"}, midi : MidiNumbers] \cup
               [kind : {"text"}, text : NoteTexts] \cup
               [kind : {"quality"}, generic : 1..8, semitones : 0..13] \cup
               [kind : {"notes"}, note1 : CoreNotes, note2 : CoreNotes] \cup
               {q \in MetricalQuestions : q.index < q.cpLen}

\* Pitch.fromMidi(arg)
FromMidi ==
    /\ op = <<>> /\ arg.kind = "midi"
    /\ op' = <<"fromMidi">>
    /\ ret' = returned(Pitch_fromMidi(arg.midi))
    /\ UNCHANGED <<arg, validation>>

\* Pitch.toMidi applied to the name Pitch.fromMidi returned
ToMidi ==
    /\ op = <<"fromMidi">>
    /\ op' = <<"fromMidi", "toMidi">>
    /\ ret' = Pitch_toMidiText(ret.value)
    /\ UNCHANGED <<arg, validation>>

\* Pitch.parse(arg)
Parse ==
    /\ op = <<>> /\ arg.kind = "text"
    /\ op' = <<"parse">>
    /\ ret' = IF Pitch_parseText(arg.text) = threw THEN threw
               ELSE returned(Pitch_parseText(arg.text))
    /\ UNCHANGED <<arg, validation>>

\* Interval.calculateQuality(generic, semitones)
CalculateQuality ==
    /\ op = <<>> /\ arg.kind = "quality"
    /\ op' = <<"calculateQuality">>
    /\ ret' = returned(Interval_calculateQuality(arg.generic, arg.semitones))
    /\ UNCHANGED <<arg, validation>>

\* Interval.between(note1, note2)
Between ==
    /\ op = <<>> /\ arg.kind = "notes"
    /\ op' = <<"between">>
    /\ ret' = returned(Interval_between(arg.note1, arg.note2))
    /\ UNCHANGED <<arg, validation>>

\* Interval.isConsonant and Interval.isDissonant on the interval returned
IsConsonant ==
    /\ op = <<"between">>
    /\ op' = <<"between", "isConsonant">>
    /\ ret' = returned([interval |-> ret.value,
                        isConsonant |-> Interval_isConsonant(ret.value),
                        isDissonant |-> Interval_isDissonant(ret.value)])
    /\ UNCHANGED <<arg, validation>>

\* Interval.invert on the interval returned
Invert ==
    /\ op = <<"between">>
    /\ op' = <<"between", "invert">>
    /\ ret' = returned([interval |-> ret.value,
                        inverted |-> Interval_invert(ret.value)])
    /\ UNCHANGED <<arg, validation>>

\* isStrongBeat / isWeakBeat / getMeasureIndex (2nd species), isDownbeat /
\* isSemiStrong / isWeakBeat / getMeasureIndex (3rd species) and
\* checkLastNoteWhole for one position of a counterpoint of a given length
Roles ==
    /\ op = <<>> /\ arg.kind = "position"
    /\ op' = <<"roles">>
    /\ ret' = returned(metricalRoles(arg.species, arg.cpLen, arg.index))
    /\ UNCHANGED <<arg, validation>>

NextCore ==
    \/ FromMidi \/ ToMidi \/ Parse
    \/ CalculateQuality \/ Between \/ IsConsonant \/ Invert
    \/ Roles

\* direct calls of the pitch and interval functions
SpecCore == InitCore /\ [][NextCore]_vars

\* counterpoint entries from which both forms of the cambiata, passing tones
\* on beats 2, 3 and 4 and a leap of a ninth can be built
FormulaNotes == {C4, D4, E4, F4, G4, G5, null}

\* five entries of a 3rd-species counterpoint
FormulaWindows == SeqsOver(FormulaNotes, Len(QuarterCF) * 4 - 3)

\* a 3rd-species exercise of two measures, or one of three measures whose
\* entries 1 to 5 vary, so that a window can straddle the second downbeat
FormulaExercise ==
    \/ /\ cantusFirmus = QuarterCF
       /\ counterpoint \in FormulaWindows
       /\ cpPosition \in {"upper", "lower"}
    \/ /\ cantusFirmus = <<C4, D4, C4>>
       /\ \E w \in FormulaWindows : counterpoint = <<E4>> \o w \o <<E4, D4, C4>>
       /\ cpPosition = "upper"

InitFormulas ==
    /\ FormulaExercise
    /\ key = [name |-> "C", accidental |-> ""]
    /\ mode = "major"
    /\ validator = "none"
    /\ outcome = "pending"
    /\ results = NewResults
    /\ calls = 0
    /\ op = <<>> /\ arg = null /\ ret = null

\* isCambiata hands counterpoint.length to _checkCambiataAt
Third_checkCambiataAtStart(startIndex, cp, cf, pos) ==
    Third_checkCambiataAt(startIndex, cp, cf, pos, Len(cp))

\* direct calls of one of the formula detectors of the 3rd species on the
\* exercise, one for every index from first to the end of the counterpoint;
\* the k-th answer is the one for index first + k - 1
DetectFormula(name, first, detect(_, _, _, _)) ==
    /\ op = <<>> /\ validator = "none"
    /\ op' = <<name>>
    /\ arg' = [kind |-> "indices", first |-> first]
    /\ ret' = returned(forLoop(LAMBDA i, acc :
                                   Append(acc, detect(i, counterpoint,
                                                      cantusFirmus, cpPosition)),
                               first, Len(counterpoint), <<>>))
    /\ UNCHANGED validation

\* ThirdSpeciesValidator.classifyDissonance(cpIndex, counterpoint, cf, cpPosition)
ClassifyDissonance ==
    DetectFormula("classifyDissonance", 0, Third_classifyDissonance)

\* ThirdSpeciesValidator._checkCambiataAt(startIndex, counterpoint, cf, cpPosition, cpLen)
CheckCambiataAt ==
    DetectFormula("checkCambiataAt", -3, Third_checkCambiataAtStart)

\* ThirdSpeciesValidator.validate(exercise), no detector having been called
ValidateUncalled(v, throws(_, _), validate(_, _, _, _, _)) ==
    op = <<>> /\ Validate(v, throws, validate)

ValidateFormulas == ValidateUncalled("third", Third_throws, Third_validate)

NextFormulas == ClassifyDissonance \/ CheckCambiataAt \/ ValidateFormulas

\* the formula detectors of the 3rd species, called directly or by validate
SpecFormulas == InitFormulas /\ [][NextFormulas]_vars

\* counterpoint entries holding the degrees 4 and 7 of C major a tritone apart
TritoneNotes == {F4, G4, B4, C5, B5, null}

\* exercises of two to four measures whose counterpoint has four or five
\* entries: a full 1st-species, 2nd-species or 3rd-species exercise
TritoneExercise ==
    /\ cantusFirmus \in {QuarterCF, <<C4, D4, C4>>, <<C4, D4, E4, C4>>}
    /\ \E n \in {4, 5} : counterpoint \in SeqsOver(TritoneNotes, n)
    /\ cpPosition = "upper"

InitTritone ==
    /\ TritoneExercise
    /\ key = [name |-> "C", accidental |-> ""]
    /\ mode = "major"
    /\ validator = "none"
    /\ outcome = "pending"
    /\ results = NewResults
    /\ calls = 0
    /\ op = <<>> /\ arg = null /\ ret = null

\* validate(exercise) of the three validators on melodies around the tritone
SpecTritone == InitTritone /\ [][Next]_vars

\* counterpoint entries a third, a fourth, a fifth, a sixth and a second or a
\* seventh above the cantus firmus notes C4 and D4
ParallelNotes == {E4, F4, G4, A4, B4}

\* the longest cantus firmus of the exercises with long runs
MaxRun == 6

\* the cantus firmus alternating between C4 and D4
AlternatingCF(n) == [i \in 1..n |-> IF i % 2 = 1 THEN C4 ELSE D4]

\* a 1st-species exercise of MaxRun - 1 or MaxRun notes, or a 2nd-species
\* exercise of MaxRun measures whose weak beats all hold G4
ParallelExercise ==
    /\ \E n \in {MaxRun - 1, MaxRun} :
          /\ cantusFirmus = AlternatingCF(n)
          /\ \/ counterpoint \in SeqsOver(ParallelNotes, n)
             \/ /\ n = MaxRun
                /\ \E strong \in SeqsOver(ParallelNotes, n) :
                      counterpoint = [i \in 1..(2 * n - 1) |->
                                        IF i % 2 = 1 THEN strong[(i + 1) \div 2]
                                        ELSE G4]
    /\ cpPosition = "upper"

InitParallels ==
    /\ ParallelExercise
    /\ key = [name |-> "C", accidental |-> ""]
    /\ mode = "major"
    /\ validator = "none"
    /\ outcome = "pending"
    /\ results = NewResults
    /\ calls = 0
    /\ op = <<>> /\ arg = null /\ ret = null

\* validate(exercise) of the three validators on exercises with long runs of
\* thirds and sixths
SpecParallels == InitParallels /\ [][Next]_vars

\* the same exercise validated up to MaxCalls times
SpecRepeated == Init /\ [][NextRepeated]_vars

-----------------------------------------------------------------------------
(* Vocabulary of the properties: pitches and intervals counted directly    *)
(* from the letters, independently of Pitch and Interval                   *)

Species == {"first", "second", "third"}

\* notes of the counterpoint per note of the cantus firmus
Ratio(v) == CASE v = "first" -> 1 [] v = "second" -> 2 [] v = "third" -> 4

\* len(CF), 2*len(CF)-1, 4*len(CF)-3
SpeciesLength(v, n) ==
    CASE v = "first" -> n [] v = "second" -> 2 * n - 1 [] v = "third" -> 4 * n - 3

\* validator v returned a report on an exercise of the right length
FullReport(v) ==
    /\ validator = v
    /\ outcome = "returned"
    /\ Len(counterpoint) = SpeciesLength(v, Len(cantusFirmus))

Positions == 0..(Len(counterpoint) - 1)

LastPosition == Len(counterpoint) - 1

Cp(p) == counterpoint[p + 1]

Sounding(p) == p \in Positions /\ Cp(p) # null

\* the cantus firmus note aligned with position p
CfAt(v, p) == cantusFirmus[(p \div Ratio(v)) + 1]

StrongPosition(v, p) ==
    CASE v = "first" -> TRUE
      [] v = "second" -> p % 2 = 0 \/ p = LastPosition
      [] v = "third" -> p % 4 = 0 \/ p = LastPosition

LetterIndex(n) ==
    CASE n.name = "C" -> 0 [] n.name = "D" -> 1 [] n.name = "E" -> 2
      [] n.name = "F" -> 3 [] n.name = "G" -> 4 [] n.name = "A" -> 5
      [] n.name = "B" -> 6

LetterSemitone(n) ==
    CASE n.name = "C" -> 0 [] n.name = "D" -> 2 [] n.name = "E" -> 4
      [] n.name = "F" -> 5 [] n.name = "G" -> 7 [] n.name = "A" -> 9
      [] n.name = "B" -> 11

Height(n) ==
    12 * (n.octave + 1) + LetterSemitone(n) +
    (CASE n.accidental = "#" -> 1 [] n.accidental = "b" -> -1 [] OTHER -> 0)

SemitonesApart(a, b) == abs(Height(a) - Height(b))

\* letter-counting distance: 1 = same letter, 2 = a step, 8 = an octave
LettersApart(a, b) ==
    abs((7 * a.octave + LetterIndex(a)) - (7 * b.octave + LetterIndex(b))) + 1

\* an interval reduced by octaves, as <<letters, semitones>>
Reduced(a, b) == <<((LettersApart(a, b) - 1) % 7) + 1, SemitonesApart(a, b) % 12>>

\* P1/P8, P5, m3, M3, m6, M6
ConsonantPair(a, b) ==
    Reduced(a, b) \in {<<1, 0>>, <<5, 7>>, <<3, 3>>, <<3, 4>>, <<6, 8>>, <<6, 9>>}

PerfectFifthPair(a, b) == Reduced(a, b) = <<5, 7>>

UnisonOrOctavePair(a, b) == Reduced(a, b) = <<1, 0>>

\* both voices move, and in the same direction, from position p to position q
SimilarMotion(v, p, q) ==
    /\ Height(CfAt(v, q)) # Height(CfAt(v, p))
    /\ sign(Height(CfAt(v, q)) - Height(CfAt(v, p))) =
       sign(Height(Cp(q)) - Height(Cp(p)))

\* p and q are strong positions with no strong position between them
ConsecutiveStrong(v, p, q) ==
    /\ p \in Positions /\ q \in Positions /\ p < q
    /\ StrongPosition(v, p) /\ StrongPosition(v, q)
    /\ \A m \in (p + 1)..(q - 1) : ~StrongPosition(v, m)

\* how many recorded errors carry this rule and this position
ErrorsAt(rule, p) ==
    Cardinality({i \in 1..Len(results.errors) :
                    results.errors[i].rule = rule /\ results.errors[i].position = p})

WarningsAt(rule, p) ==
    Cardinality({i \in 1..Len(results.warnings) :
                    results.warnings[i].rule = rule /\ results.warnings[i].position = p})

-----------------------------------------------------------------------------
(* Properties *)

\* C1: for each species, a counterpoint whose length differs from the species
\* formula makes validate return exactly one error, of rule LENGTH, with
\* valid = false and empty warnings, suggestions and per-position results.
C1_LengthMismatch ==
    \A v \in Species :
        (validator = v /\ Len(counterpoint) # SpeciesLength(v, Len(cantusFirmus)))
        => /\ outcome = "returned"
           /\ Len(results.errors) = 1
           /\ results.errors[1].rule = "LENGTH"
           /\ results.valid = FALSE
           /\ results.warnings = <<>>
           /\ results.suggestions = <<>>
           /\ results.noteResults = <<>>

\* a 2nd-species call on a two-note cantus with a two-note counterpoint
C1_Witness ==
    /\ validator = "second"
    /\ Len(cantusFirmus) = 2 /\ Len(counterpoint) = 2
    /\ Len(results.errors) = 1 /\ results.errors[1].rule = "LENGTH"
    /\ ~results.valid

\* C2: in every species each sounding strong position gets exactly one
\* consonance error when its interval with the cantus firmus, reduced by
\* octaves, is none of P1, P5, P8, m3, M3, m6, M6, and none when it is one.
C2_StrongConsonance ==
    \A v \in Species :
        FullReport(v) =>
            \A p \in Positions :
                (StrongPosition(v, p) /\ Sounding(p)) =>
                    ErrorsAt("consonance", p) =
                        IF ConsonantPair(CfAt(v, p), Cp(p)) THEN 0 ELSE 1

\* a 3rd-species report whose second downbeat is a second above the cantus
C2_Witness ==
    /\ FullReport("third")
    /\ cantusFirmus = <<C4, D4>>
    /\ Cp(0) = C4 /\ Cp(4) = E4
    /\ ErrorsAt("consonance", 4) = 1
    /\ ErrorsAt("consonance", 0) = 0

\* C3: two consecutive sounding strong positions that both stand a perfect
\* fifth from the cantus firmus and are reached in similar motion get exactly
\* one parallel-fifths error, located at the second of the two.
C3_ParallelFifths ==
    \A v \in Species :
        FullReport(v) =>
            \A p, q \in Positions :
                (/\ ConsecutiveStrong(v, p, q)
                 /\ Sounding(p) /\ Sounding(q)
                 /\ PerfectFifthPair(CfAt(v, p), Cp(p))
                 /\ PerfectFifthPair(CfAt(v, q), Cp(q))
                 /\ SimilarMotion(v, p, q))
                => ErrorsAt("parallel-fifths", q) = 1

\* CF = [C4, D4] under the upper counterpoint [G4, A4] in 1st species
C3_Witness ==
    /\ FullReport("first")
    /\ cantusFirmus = <<C4, D4>> /\ counterpoint = <<G4, A4>>
    /\ cpPosition = "upper"
    /\ ErrorsAt("parallel-fifths", 1) = 1
    /\ ErrorsAt("parallel-fifths", 0) = 0

\* exactly an octave: eight letters and twelve semitones apart
OctavePair(a, b) == LettersApart(a, b) = 8 /\ SemitonesApart(a, b) = 12

\* C4: two consecutive sounding strong positions that both stand a perfect
\* octave from the cantus firmus and are reached in similar motion get a
\* parallel-octaves error at the second of the two, in every species.
C4_ParallelOctaves ==
    \A v \in Species :
        FullReport(v) =>
            \A p, q \in Positions :
                (/\ ConsecutiveStrong(v, p, q)
                 /\ Sounding(p) /\ Sounding(q)
                 /\ OctavePair(CfAt(v, p), Cp(p))
                 /\ OctavePair(CfAt(v, q), Cp(q))
                 /\ SimilarMotion(v, p, q))
                => ErrorsAt("parallel-octaves", q) >= 1

\* position p of a 2nd-species counterpoint is a weak beat holding a note
\* that is dissonant against the cantus firmus
DissonantWeakBeat(p) ==
    /\ p \in Positions /\ p % 2 = 1 /\ p # LastPosition
    /\ Sounding(p)
    /\ ~ConsonantPair(CfAt("second", p), Cp(p))

\* C5: in 2nd species a dissonant weak-beat note gets a passing-tone error
\* whenever a neighbouring position is a rest, the approach and the departure
\* go in opposite directions, a neighbour repeats its pitch, or a neighbour is
\* dissonant against its own cantus firmus note.
C5_PassingToneRejected ==
    FullReport("second") =>
        \A p \in Positions :
            (/\ DissonantWeakBeat(p)
             /\ \/ ~Sounding(p - 1) \/ ~Sounding(p + 1)
                \/ /\ Sounding(p - 1) /\ Sounding(p + 1)
                   /\ \/ sign(Height(Cp(p)) - Height(Cp(p - 1))) =
                         -sign(Height(Cp(p + 1)) - Height(Cp(p)))
                      \/ Height(Cp(p - 1)) = Height(Cp(p))
                      \/ Height(Cp(p + 1)) = Height(Cp(p))
                      \/ ~ConsonantPair(CfAt("second", p - 1), Cp(p - 1))
                      \/ ~ConsonantPair(CfAt("second", p + 1), Cp(p + 1)))
            => ErrorsAt("passing-tone", p) >= 1

\* CF = [C4, D4] under the upper counterpoint [E4, D4, F4]: the weak D4 is
\* left to a dissonant F4
C5_Witness ==
    /\ FullReport("second")
    /\ cantusFirmus = <<C4, D4>> /\ counterpoint = <<E4, D4, F4>>
    /\ cpPosition = "upper"
    /\ DissonantWeakBeat(1)
    /\ ErrorsAt("passing-tone", 1) = 1

\* the weak beats of species v
WeakPosition(v, p) ==
    /\ p \in Positions /\ p # LastPosition
    /\ IF v = "second" THEN p % 2 = 1 ELSE p % 4 \in {1, 3}

\* what isPassingTone of species v answers for position p of the exercise
AcceptedAsPassingTone(v, p) ==
    IF v = "second"
    THEN Second_isPassingTone(p, counterpoint, cantusFirmus, cpPosition).valid
    ELSE Third_isPassingTone(p, counterpoint, cantusFirmus, cpPosition).valid

\* C6: isPassingTone of the 2nd and 3rd species accepts a sounding weak-beat
\* note iff both neighbours sound, both lie at most a second away counting
\* letters across octaves, both steps go in the same non-zero direction, and
\* both neighbours are consonant against their own cantus firmus notes.
C6_PassingToneIff ==
    \A v \in {"second", "third"} :
        FullReport(v) =>
            \A p \in Positions :
                (WeakPosition(v, p) /\ Sounding(p)) =>
                    (AcceptedAsPassingTone(v, p) <=>
                        /\ Sounding(p - 1) /\ Sounding(p + 1)
                        /\ LettersApart(Cp(p - 1), Cp(p)) <= 2
                        /\ LettersApart(Cp(p), Cp(p + 1)) <= 2
                        /\ Height(Cp(p)) # Height(Cp(p - 1))
                        /\ sign(Height(Cp(p)) - Height(Cp(p - 1))) =
                           sign(Height(Cp(p + 1)) - Height(Cp(p)))
                        /\ ConsonantPair(CfAt(v, p - 1), Cp(p - 1))
                        /\ ConsonantPair(CfAt(v, p + 1), Cp(p + 1)))

\* the first position of the counterpoint that holds a note
FirstSounding(p) == Sounding(p) /\ \A m \in 0..(p - 1) : ~Sounding(m)

\* C7: a sounding strong position carries a unison error exactly when the
\* counterpoint and the cantus firmus sound the same pitch there (0 semitones)
\* and the position is neither the first sounding one nor the last; an
\* interior octave carries none.
C7_UnisonIff ==
    \A v \in Species :
        FullReport(v) =>
            \A p \in Positions :
                (StrongPosition(v, p) /\ Sounding(p)) =>
                    (ErrorsAt("unison", p) >= 1 <=>
                        /\ SemitonesApart(CfAt(v, p), Cp(p)) = 0
                        /\ ~FirstSounding(p)
                        /\ p # LastPosition)

\* C8: in every species the first sounding note gets exactly one
\* start-consonance error unless it forms a unison, fifth or octave with its
\* cantus firmus note, and the final note gets exactly one end-consonance
\* error unless it forms a unison or octave with the last cantus firmus note.
C8_StartAndEnd ==
    \A v \in Species :
        FullReport(v) =>
            /\ \A p \in Positions :
                   FirstSounding(p) =>
                       ErrorsAt("start-consonance", p) =
                           IF \/ UnisonOrOctavePair(CfAt(v, p), Cp(p))
                              \/ PerfectFifthPair(CfAt(v, p), Cp(p))
                           THEN 0 ELSE 1
            /\ Sounding(LastPosition) =>
                   ErrorsAt("end-consonance", LastPosition) =
                       IF UnisonOrOctavePair(CfAt(v, LastPosition), Cp(LastPosition))
                       THEN 0 ELSE 1

\* the scale degree of a natural note in C major, the key of the exercises
DegreeInKey(n) == LetterIndex(n) + 1

Penultimate == LastPosition - 1

\* the rules under which the validators report on the cadence
CadenceRules ==
    {"leading-tone", "cadence", "cadence-second-species", "cadence-third-species"}

\* warnings of the cadence check on the penultimate note
CadenceWarnings ==
    Cardinality({i \in 1..Len(results.warnings) :
                    /\ results.warnings[i].rule \in CadenceRules
                    /\ results.warnings[i].position = Penultimate})

CadenceErrors ==
    Cardinality({i \in 1..Len(results.errors) : results.errors[i].rule \in CadenceRules})

\* the report of species v on an exercise whose penultimate position holds a
\* note: no cadence error; a cadence warning iff the note's degree is outside
\* the degrees the voice may arrive from; and, for an upper 1st-species voice
\* ending on an octave from another degree than 7, a leading-tone warning on
\* a result that is valid when it has no errors
CadenceReport(v, lowerDegrees) ==
    /\ CadenceErrors = 0
    /\ CadenceWarnings >= 1 <=>
           IF cpPosition = "upper"
           THEN DegreeInKey(Cp(Penultimate)) # 7
           ELSE DegreeInKey(Cp(Penultimate)) \notin lowerDegrees
    /\ (/\ v = "first" /\ cpPosition = "upper"
        /\ OctavePair(CfAt(v, LastPosition), Cp(LastPosition))
        /\ DegreeInKey(Cp(Penultimate)) # 7)
       => /\ WarningsAt("leading-tone", Penultimate) = 1
          /\ Len(results.errors) = 0 => results.valid

ErrorsOn(p) ==
    Cardinality({i \in 1..Len(results.errors) : results.errors[i].position = p})

\* every rest of the report of species v is either at a position where
\* allowed holds, and then carries no error, or carries at least one
RestsReport(v, allowed(_)) ==
    \A p \in Positions :
        Cp(p) = null => IF allowed(p) THEN ErrorsOn(p) = 0 ELSE ErrorsOn(p) >= 1

MisplacedRest(v, p) ==
    /\ p \in Positions /\ Cp(p) = null
    /\ p >= (IF v = "second" THEN 1 ELSE 3)

MisplacedRests(v) == {p \in Positions : MisplacedRest(v, p)}

\* C11 as stated: an exercise with an illegally placed rest makes validate
\* short-circuit and return a single explanatory error, with no other
\* errors, warnings or suggestions.
C11_ShortCircuitAsStated ==
    \A v \in {"second", "third"} :
        (FullReport(v) /\ Cardinality(MisplacedRests(v)) = 1)
        => /\ Len(results.errors) = 1
           /\ results.warnings = <<>>
           /\ results.suggestions = <<>>

\* C11: an illegally placed rest does not end the analysis: each such rest
\* gets an error at its own position, the result is invalid, every position
\* keeps its per-position entry, and the sounding strong positions are still
\* judged for consonance.
C11_MisplacedRests ==
    \A v \in {"second", "third"} :
        (FullReport(v) /\ MisplacedRests(v) # {})
        => /\ ~results.valid
           /\ Len(results.noteResults) = Len(counterpoint)
           /\ \A p \in MisplacedRests(v) :
                  ErrorsAt(IF v = "second" THEN "anacrusis" ELSE "unison", p) = 1
           /\ \A p \in Positions :
                  (StrongPosition(v, p) /\ Sounding(p)) =>
                      ErrorsAt("consonance", p) =
                          IF ConsonantPair(CfAt(v, p), Cp(p)) THEN 0 ELSE 1

\* a 2nd-species counterpoint [rest, rest, E4] over [C4, D4]: the misplaced
\* rest and the dissonant final note are both reported
C11_Witness ==
    /\ FullReport("second")
    /\ cantusFirmus = <<C4, D4>> /\ counterpoint = <<null, null, E4>>
    /\ ErrorsAt("anacrusis", 1) = 1
    /\ ErrorsAt("consonance", 2) = 1
    /\ Len(results.errors) > 1

\* C12: for every exercise whose counterpoint has the species' length over a
\* cantus firmus of at least one note, rests at disallowed positions
\* included, validate returns a result instead of throwing, in all three
\* species.
C12_AlwaysReturns ==
    \A v \in Species :
        (/\ validator = v
         /\ Len(cantusFirmus) >= 1
         /\ Len(counterpoint) = SpeciesLength(v, Len(cantusFirmus)))
        => outcome = "returned"

\* error, warning and suggestion weights of calculateScore
ErrorWeight(v) == CASE v = "first" -> 15 [] v = "second" -> 10 [] v = "third" -> 8

WarningWeight(v) == CASE v = "first" -> 5 [] v = "second" -> 4 [] v = "third" -> 3

IssueCount == Len(results.errors) + Len(results.warnings) + Len(results.suggestions)

\* C13: every returned result has score = max(0, 100 - E*|errors| -
\* W*|warnings| - |suggestions|) with the species' weights, so the score lies
\* in 0..100 and is below 100 whenever any issue is present.
C13_ScoreFormula ==
    \A v \in Species :
        (validator = v /\ outcome = "returned")
        => /\ results.score =
                max(0, 100 - ErrorWeight(v) * Len(results.errors)
                           - WarningWeight(v) * Len(results.warnings)
                           - Len(results.suggestions))
           /\ results.score \in 0..100
           /\ (IssueCount > 0 => results.score < 100)

\* C14: in every returned result, full or LENGTH short-circuit, valid is true
\* exactly when the error list is empty, whatever the score.
C14_ValidIffNoErrors ==
    outcome = "returned" => (results.valid <=> Len(results.errors) = 0)

\* a 1st-species report with warnings but no error: valid, score below 100
C14_Witness ==
    /\ FullReport("first")
    /\ results.valid
    /\ Len(results.errors) = 0
    /\ Len(results.warnings) >= 1
    /\ results.score < 100

\* every issue of the list that carries a position p >= 0 is also among the
\* issues of the per-position entry p
KeptPerPosition(issues) ==
    \A i \in 1..Len(issues) :
        issues[i].position >= 0 =>
            \E j \in 1..Len(results.noteResults[issues[i].position + 1].issues) :
                results.noteResults[issues[i].position + 1].issues[j] = issues[i]

\* C15: after a full validation every error, warning and suggestion with a
\* position p >= 0 also appears in noteResults[p].issues; only the global
\* issues (position -1) are absent from the per-position entries.
C15_IssuesKeptPerPosition ==
    \A v \in Species :
        FullReport(v) =>
            /\ KeptPerPosition(results.errors)
            /\ KeptPerPosition(results.warnings)
            /\ KeptPerPosition(results.suggestions)

ConsecutiveSounding(p, q) ==
    /\ p \in Positions /\ q \in Positions /\ p < q
    /\ Sounding(p) /\ Sounding(q)
    /\ \A m \in (p + 1)..(q - 1) : Cp(m) = null

\* C17: in every species a pair of consecutive sounding counterpoint notes
\* (rests skipped) whose semitone distance is 6 modulo 12 gets exactly one
\* tritone error at the position of the later note, and no other position
\* gets a tritone error.
C17_MelodicTritone ==
    \A v \in Species :
        FullReport(v) =>
            \A q \in Positions :
                ErrorsAt("tritone", q) =
                    IF \E p \in Positions :
                          /\ ConsecutiveSounding(p, q)
                          /\ SemitonesApart(Cp(p), Cp(q)) % 12 = 6
                    THEN 1 ELSE 0

\* a 3rd-species counterpoint falling from B4 to F4 across a misplaced rest
C17_Witness ==
    /\ FullReport("third")
    /\ \E p, q \in Positions :
          /\ ConsecutiveSounding(p, q) /\ q > p + 1
          /\ Cp(p) = B4 /\ Cp(q) = F4
          /\ ErrorsAt("tritone", q) = 1
          /\ ErrorsAt("tritone", p) = 0

\* C18: in every species a pair of consecutive sounding notes whose melodic
\* leap is larger than a sixth (seven letters or more apart, the octave and
\* wider leaps included) gets a stepwise warning at the position of the later
\* note, and a leap never produces a stepwise error.
C18_LargeLeapWarned ==
    \A v \in Species :
        FullReport(v) =>
            \A p, q \in Positions :
                (ConsecutiveSounding(p, q) /\ LettersApart(Cp(p), Cp(q)) >= 7)
                => /\ WarningsAt("stepwise", q) >= 1
                   /\ ErrorsAt("stepwise", q) = 0

SoundingPositions == {p \in Positions : Cp(p) # null}

\* semitones between the highest and the lowest sounding counterpoint note
SoundingSpan ==
    LET hs == {Height(Cp(p)) : p \in SoundingPositions}
        hi == CHOOSE h \in hs : \A g \in hs : g <= h
        lo == CHOOSE h \in hs : \A g \in hs : g >= h
    IN  hi - lo

\* how many recorded warnings carry the rule range, at any position
RangeWarnings ==
    Cardinality({i \in 1..Len(results.warnings) : results.warnings[i].rule = "range"})

SamePitch(p, q) == Height(Cp(p)) = Height(Cp(q))

\* the 2nd-species half of C20: a strong position whose preceding sounding
\* note lies on a weak beat and has the same pitch
RepeatedAcrossBarline(q) ==
    \E p \in Positions :
        /\ ConsecutiveSounding(p, q) /\ SamePitch(p, q)
        /\ WeakPosition("second", p) /\ StrongPosition("second", q)

\* q ends three consecutive sounding notes of one pitch
ThirdOfARun(q) ==
    \E o, p \in Positions :
        /\ ConsecutiveSounding(o, p) /\ ConsecutiveSounding(p, q)
        /\ SamePitch(o, p) /\ SamePitch(p, q)

\* C20 as stated: note repetition is a warning: in the 2nd species at a
\* strong position whenever the preceding sounding note lies on a weak beat
\* and has the same pitch, in the 3rd species whenever two consecutive
\* sounding notes have the same pitch.
C20_RepetitionAsStated ==
    /\ FullReport("second") =>
          \A q \in Positions :
              RepeatedAcrossBarline(q) => WarningsAt("note-repetition", q) >= 1
    /\ FullReport("third") =>
          \A p, q \in Positions :
              (ConsecutiveSounding(p, q) /\ SamePitch(p, q))
              => WarningsAt("note-repetition", q) >= 1

\* C20: note repetition is a warning, never an error: the 2nd species gives
\* one exactly at the strong positions that repeat the pitch of a preceding
\* weak-beat sounding note, the 3rd species exactly at the notes that are the
\* third or a later one of consecutive sounding notes of one pitch.
C20_Repetition ==
    /\ FullReport("second") =>
          \A q \in Positions :
              /\ WarningsAt("note-repetition", q) =
                    IF RepeatedAcrossBarline(q) THEN 1 ELSE 0
              /\ ErrorsAt("note-repetition", q) = 0
    /\ FullReport("third") =>
          \A q \in Positions :
              /\ WarningsAt("note-repetition", q) = IF ThirdOfARun(q) THEN 1 ELSE 0
              /\ ErrorsAt("note-repetition", q) = 0

\* a 3rd-species counterpoint opening with C4 three times: the second C4 is
\* let through, the third is warned
C20_Witness ==
    /\ FullReport("third")
    /\ Cp(0) = C4 /\ Cp(1) = C4 /\ Cp(2) = C4 /\ Cp(3) = F4
    /\ WarningsAt("note-repetition", 1) = 0
    /\ WarningsAt("note-repetition", 2) = 1

\* C21: for every semitone index i in 0..127, Pitch.toMidi(Pitch.fromMidi(i))
\* = i: the canonical name of an index parses back to the same index, without
\* a parse failure.
C21_MidiRoundTrip ==
    (op = <<"fromMidi", "toMidi">> /\ arg.midi \in 0..127)
    => ret = returned(arg.midi)

\* semitones of a natural letter above C, plus one for a sharp and minus one
\* for a flat
ChromaticOffset(letter, accidental) ==
    (CASE letter = "C" -> 0 [] letter = "D" -> 2 [] letter = "E" -> 4
       [] letter = "F" -> 5 [] letter = "G" -> 7 [] letter = "A" -> 9
       [] letter = "B" -> 11) +
    (CASE accidental = "#" -> 1 [] accidental = "b" -> -1 [] OTHER -> 0)

\* C22: for every letter A-G, accidental none, # or b, and octave digit 0-9,
\* Pitch.parse returns midi = (octave + 1) * 12 + chromaticOffset(letter,
\* accidental); so Cb4 has the index of B3 (59) and B#4 the index of C5 (72).
C22_ParseMidi ==
    \A l \in 1..7, a \in {"", "#", "b"}, d \in 1..Len(DIGITS) :
        (op = <<"parse">> /\ arg.text = LETTERS[l] \o a \o DIGITS[d])
        => /\ ret # threw
           /\ ret.value.midi = ((d - 1) + 1) * 12 + ChromaticOffset(LETTERS[l], a)

Qualities == {"P", "M", "m", "A", "d"}

\* C23: Interval.calculateQuality returns one of P, M, m, A, d for every
\* generic number 1..8 and semitone count 0..13, P only for the generic
\* numbers 1, 4, 5, 8 and M or m only for 2, 3, 6, 7; and Interval.isConsonant
\* is the negation of Interval.isDissonant on every interval.
C23_QualityTotal ==
    /\ op = <<"calculateQuality">> =>
          /\ ret # threw
          /\ ret.value \in Qualities
          /\ ret.value = "P" => arg.generic \in {1, 4, 5, 8}
          /\ ret.value \in {"M", "m"} => arg.generic \in {2, 3, 6, 7}
    /\ op = <<"between", "isConsonant">> =>
          ret.value.isConsonant = ~ret.value.isDissonant

\* a minor third between two spelled notes, judged consonant and not dissonant
C23_Witness ==
    /\ op = <<"between", "isConsonant">>
    /\ arg.note1 = Note("C", "", 4) /\ arg.note2 = Note("E", "b", 4)
    /\ ret.value.interval.name = "m3"
    /\ ret.value.isConsonant /\ ~ret.value.isDissonant

\* C24: for every interval i of Interval.between, Interval.invert(i) has
\* generic = 9 - (simple generic of i), semitones = 12 - (simple semitones of
\* i), a quality among P, M, m, A, d paired with the quality of i by P<->P,
\* M<->m, A<->d, and name = quality followed by generic.
C24_Inversion ==
    op = <<"between", "invert">> =>
        LET i == ret.value.interval
            inv == ret.value.inverted
            paired == CASE i.quality = "P" -> "P" [] i.quality = "M" -> "m"
                        [] i.quality = "m" -> "M" [] i.quality = "A" -> "d"
                        [] i.quality = "d" -> "A"
        IN  /\ inv.generic = 9 - i.simple.generic
            /\ inv.semitones = 12 - i.simple.semitones
            /\ inv.quality \in Qualities
            /\ inv.quality = paired
            /\ inv.name = inv.quality \o ToString(inv.generic)

\* a perfect octave (or a compound of it), but no unison
PerfectOctavePair(a, b) == UnisonOrOctavePair(a, b) /\ LettersApart(a, b) >= 8

PerfectPair(a, b) == UnisonOrOctavePair(a, b) \/ PerfectFifthPair(a, b)

\* the upper voice moves by step from position p to position q
UpperVoiceStep(v, p, q) ==
    IF cpPosition = "upper"
    THEN LettersApart(Cp(p), Cp(q)) = 2
    ELSE LettersApart(CfAt(v, p), CfAt(v, q)) = 2

\* the second of two consecutive strong positions is reached as a hidden
\* perfect interval
HiddenApproach(v, p, q) ==
    /\ ~PerfectPair(CfAt(v, p), Cp(p))
    /\ SimilarMotion(v, p, q)
    /\ ~UpperVoiceStep(v, p, q)

\* C25: for two consecutive sounding strong positions a hidden-fifths or
\* hidden-octaves warning, never an error, is recorded at the second exactly
\* when the second interval is a perfect fifth or a perfect octave
\* respectively, the first is no perfect interval, the voices move in similar
\* motion and the upper voice does not move by step.
C25_HiddenPerfect ==
    \A v \in Species :
        FullReport(v) =>
            \A p, q \in Positions :
                (ConsecutiveStrong(v, p, q) /\ Sounding(p) /\ Sounding(q))
                => /\ WarningsAt("hidden-fifths", q) =
                        IF PerfectFifthPair(CfAt(v, q), Cp(q)) /\ HiddenApproach(v, p, q)
                        THEN 1 ELSE 0
                   /\ WarningsAt("hidden-octaves", q) =
                        IF PerfectOctavePair(CfAt(v, q), Cp(q)) /\ HiddenApproach(v, p, q)
                        THEN 1 ELSE 0
                   /\ ErrorsAt("hidden-fifths", q) = 0
                   /\ ErrorsAt("hidden-octaves", q) = 0

RolesHeld(r) ==
    Cardinality({role \in {"strong", "semiStrong", "weak"} : r[role]})

\* C26: for every counterpoint length that passes the species length check
\* and every position, exactly one metrical role applies (strong or weak in
\* the 2nd species; downbeat, semi-strong or weak in the 3rd), the final
\* position is strong, the aligned cantus firmus index lies within the cantus
\* firmus, classifyDissonance recognizes the position, and checkLastNoteWhole
\* produces no error.
C26_MetricalRoles ==
    (/\ op = <<"roles">>
     /\ passesLengthCheck(arg.species, arg.cfLen, arg.cpLen))
    => /\ RolesHeld(ret.value) = 1
       /\ arg.index = arg.cpLen - 1 => ret.value.strong
       /\ ret.value.measure \in 0..(arg.cfLen - 1)
       /\ ret.value.recognized
       /\ ret.value.lastNoteErrors = 0

\* beat 4 of the second measure of a 3rd-species counterpoint over four
\* cantus firmus notes: weak, and nothing else
C26_Witness ==
    /\ op = <<"roles">>
    /\ arg.species = "third" /\ arg.cfLen = 4 /\ arg.cpLen = 13 /\ arg.index = 7
    /\ ret.value.weak /\ ~ret.value.strong /\ ~ret.value.semiStrong
    /\ ret.value.measure = 1

\* position p of a 3rd-species counterpoint holds a note that is dissonant
\* against its cantus firmus note
DissonantQuarter(p) ==
    Sounding(p) /\ ~ConsonantPair(CfAt("third", p), Cp(p))

\* a strong-beat passing tone: the notes before and after p lie a step away
\* in the same direction, a third apart from each other, and are consonant
\* against their own cantus firmus notes
StrongBeatPassingTone(p) ==
    /\ Sounding(p - 1) /\ Sounding(p + 1)
    /\ LettersApart(Cp(p - 1), Cp(p)) = 2
    /\ LettersApart(Cp(p), Cp(p + 1)) = 2
    /\ \/ Height(Cp(p - 1)) < Height(Cp(p)) /\ Height(Cp(p)) < Height(Cp(p + 1))
       \/ Height(Cp(p - 1)) > Height(Cp(p)) /\ Height(Cp(p)) > Height(Cp(p + 1))
    /\ LettersApart(Cp(p - 1), Cp(p + 1)) = 3
    /\ ConsonantPair(CfAt("third", p - 1), Cp(p - 1))
    /\ ConsonantPair(CfAt("third", p + 1), Cp(p + 1))

\* the notes of the windows that _checkCambiataAt accepts and that hold p as
\* their note 2, 3 or 4
CambiataNotes(p) ==
    {n \in 2..4 : Third_checkCambiataAtStart(p - (n - 1), counterpoint,
                                             cantusFirmus, cpPosition)}

\* the classification the stated order of attempts gives a dissonance at p
ClassifiedInOrder(p) ==
    CASE p % 4 = 0 -> "invalid"
      [] p % 4 = 2 -> IF StrongBeatPassingTone(p) THEN "strong-passing-tone"
                      ELSE IF CambiataNotes(p) # {} THEN "cambiata"
                      ELSE "invalid"
      [] OTHER -> IF AcceptedAsPassingTone("third", p) THEN "passing-tone"
                  ELSE IF CambiataNotes(p) # {} THEN "cambiata"
                  ELSE "invalid"

\* the rule under which validate records a dissonance that no attempt explains
DissonanceRule(p) ==
    CASE p % 4 = 0 -> "consonance"
      [] p % 4 = 2 -> "beat-three-consonance"
      [] OTHER -> "passing-tone"

\* C27: in 3rd species classifyDissonance answers invalid for a dissonance on
\* a downbeat, tries a dissonance on beat 3 as a strong-beat passing tone and
\* then as a cambiata member, tries one on a weak beat as a passing tone and
\* then as a cambiata member, the first success deciding the type; isCambiata
\* reports the first of N2, N3, N4 whose window is valid; and validate records
\* an error for the dissonance exactly when every attempt has failed.
C27_DissonanceOrder ==
    /\ op = <<"classifyDissonance">> =>
          \A p \in Positions :
             DissonantQuarter(p) =>
                /\ ret.value[p + 1].type = ClassifiedInOrder(p)
                /\ ret.value[p + 1].valid = (ClassifiedInOrder(p) # "invalid")
                /\ LET found == Third_isCambiata(p, counterpoint, cantusFirmus,
                                                 cpPosition)
                   IN  /\ found.valid = (CambiataNotes(p) # {})
                       /\ found.valid =>
                             /\ found.notePosition \in CambiataNotes(p)
                             /\ \A n \in CambiataNotes(p) : found.notePosition <= n
    /\ validator = "third" /\ FullReport("third") =>
          \A p \in Positions :
             DissonantQuarter(p) =>
                ErrorsAt(DissonanceRule(p), p) =
                   IF ClassifiedInOrder(p) = "invalid" THEN 1 ELSE 0

\* the note at position p lies gen letters away from the note before it (2 a
\* second, 3 a third), above it when dir is 1 and below it when dir is -1
Moves(p, gen, dir) ==
    /\ LettersApart(Cp(p - 1), Cp(p)) = gen
    /\ (Height(Cp(p)) - Height(Cp(p - 1))) * dir > 0

\* the cambiata as described, on the five positions from start, its first
\* step going in direction dir
CambiataFrom(start, dir) ==
    /\ \A p \in start..(start + 4) : Sounding(p)
    /\ Moves(start + 1, 2, dir)
    /\ Moves(start + 2, 3, dir)
    /\ Moves(start + 3, 2, -dir)
    /\ Moves(start + 4, 2, -dir)
    /\ ConsonantPair(CfAt("third", start), Cp(start))
    /\ ConsonantPair(CfAt("third", start + 4), Cp(start + 4))
    /\ SemitonesApart(CfAt("third", start + 4), Cp(start + 4)) % 12 # 6

\* C28: _checkCambiataAt(start) accepts exactly when the positions start to
\* start+4 all lie inside the counterpoint and sound, N1->N2 is a generic
\* second in some direction, N2->N3 a generic third in the same direction,
\* N3->N4 and N4->N5 generic seconds in the opposite direction, N1 and N5 are
\* consonant against their cantus firmus notes and N5 forms no tritone with
\* its cantus firmus note; the descending and the ascending form are both
\* accepted, whatever N2, N3 and N4 form against the cantus firmus.
C28_CambiataExactly ==
    op = <<"checkCambiataAt">> =>
       \A k \in 1..Len(ret.value) :
          LET start == arg.first + k - 1
          IN  ret.value[k] = (CambiataFrom(start, 1) \/ CambiataFrom(start, -1))

\* how many sounding notes precede position p
SoundingRank(p) == Cardinality({m \in SoundingPositions : m < p})

\* q holds a note 2 to 4 sounding notes after the note at p, the two stand on
\* degrees 4 and 7 and lie a tritone apart
CompoundTritone(p, q) ==
    /\ Sounding(p) /\ Sounding(q)
    /\ SoundingRank(q) - SoundingRank(p) \in 2..4
    /\ {DegreeInKey(Cp(p)), DegreeInKey(Cp(q))} = {4, 7}
    /\ SemitonesApart(Cp(p), Cp(q)) % 12 = 6

\* q holds the leading note as the last sounding note but one
CadentialLeadingNote(q) ==
    /\ DegreeInKey(Cp(q)) = 7
    /\ SoundingRank(q) = Cardinality(SoundingPositions) - 2

\* C29: in every species a compound-tritone warning is recorded for a
\* starting sounding note when some sounding note 2 to 4 notes later stands
\* with it on degrees 4 and 7 a tritone apart, at most once per starting note,
\* and none is recorded when the degree-7 endpoint is the penultimate sounding
\* note (a start whose endpoints are partly cadential is left open).
C29_CompoundTritone ==
    \A v \in Species :
       FullReport(v) =>
          \A p \in Positions :
             LET ends == {q \in Positions : CompoundTritone(p, q)}
                 warned == WarningsAt("compound-tritone", p)
             IN  /\ warned <= 1
                 /\ ends = {} => warned = 0
                 /\ (ends # {} /\ \A q \in ends : ~CadentialLeadingNote(q)) => warned = 1
                 /\ (ends # {} /\ \A q \in ends : CadentialLeadingNote(q)) => warned = 0

\* how many recorded suggestions carry this rule and this position
SuggestionsAt(rule, p) ==
    Cardinality({i \in 1..Len(results.suggestions) :
                    /\ results.suggestions[i].rule = rule
                    /\ results.suggestions[i].position = p})

\* the interval between the voices at position p: a third, a sixth or another
ImperfectClass(v, p) ==
    CASE Reduced(CfAt(v, p), Cp(p)) \in {<<3, 3>>, <<3, 4>>} -> "third"
      [] Reduced(CfAt(v, p), Cp(p)) \in {<<6, 8>>, <<6, 9>>} -> "sixth"
      [] OTHER -> "other"

\* the positions the rule looks at: all of them in 1st species, the strong
\* beats in 2nd species
RunPositions(v) == {p \in Positions : p % Ratio(v) = 0}

\* the positions s to e hold a maximal run of thirds, or of sixths
MaximalRun(v, s, e) ==
    /\ s \in RunPositions(v) /\ e \in RunPositions(v) /\ s <= e
    /\ ImperfectClass(v, s) # "other"
    /\ \A p \in RunPositions(v) :
          (s <= p /\ p <= e) => ImperfectClass(v, p) = ImperfectClass(v, s)
    /\ (s - Ratio(v)) \in RunPositions(v) =>
          ImperfectClass(v, s - Ratio(v)) # ImperfectClass(v, s)
    /\ (e + Ratio(v)) \in RunPositions(v) =>
          ImperfectClass(v, e + Ratio(v)) # ImperfectClass(v, s)

\* the position s starts a maximal run of more than 4 positions
LongRunFrom(v, s) ==
    \E e \in RunPositions(v) : MaximalRun(v, s, e) /\ (e - s) \div Ratio(v) + 1 > 4

\* C30: in 1st species (all positions) and in 2nd species (strong beats) every
\* maximal run of more than 4 consecutive thirds, and every maximal run of
\* more than 4 consecutive sixths, yields exactly one excessive-parallels
\* suggestion at the start of the run, whatever ends the run; shorter runs
\* yield none.
C30_ExcessiveParallels ==
    \A v \in {"first", "second"} :
       FullReport(v) =>
          \A p \in Positions :
             SuggestionsAt("excessive-parallels", p) =
                IF LongRunFrom(v, p) THEN 1 ELSE 0

====
